---- MODULE Spec2Model ----
(***************************************************************************)
(* Document Processing Orchestrator of jodfie/scan-processor.               *)
(*                                                                         *)
(* DocumentProcessor.process_document (src/scripts/process.py) as a state  *)
(* machine: one action per step of the pipeline and of its exception       *)
(* handler.  A DocumentProcessor is constructed once (Init) and            *)
(* process_document is invoked on it up to MaxRuns times.  The filesystem  *)
(* holds, for the one filename under analysis, which document (if any) is  *)
(* stored under that name in each of the four directories.  Every external *)
(* call a run makes is appended to that run's call log, in call order.     *)
(*                                                                         *)
(* DocumentClassifier (src/scripts/classifier.py) is a second state        *)
(* machine, ClassifierSpec: a DocumentClassifier is constructed once and   *)
(* its classify_document and extract_*_metadata methods are invoked up to  *)
(* MaxCalls times, each invocation stepping through _call_claude_code.     *)
(*                                                                         *)
(* Further specifications apply single parts of the pipeline to bounded    *)
(* inputs (_extract_json, the vault router, the document-store client, the *)
(* tag and type derivation of step 3), run the two clients in dev mode,    *)
(* and interleave concurrent invocations (ConcurrentSpec, UpdateRaceSpec). *)
(***************************************************************************)
EXTENDS Integers, Sequences, FiniteSets, TLC

\* ------------------------------------------------------------------ bounds
MaxRuns == 2
MaxCalls == 2
MaxLen == 6
MaxNotes == 2
MaxUploads == 2

Runs == 1..MaxRuns

\* ------------------------------------------------------------- value sets
None == "None"

Dirs == {"incoming", "processing", "completed", "failed"}

\* A document is identified by the run whose arrival put it in incoming/.
NoDoc == 0
Docs == Runs

\* Categories the classification agent answers with in this model: one of
\* the legacy names tested at step 4, one with an extractor and a vault
\* mapping, and one with neither.
AgentCategories == {"MEDICAL", "UTILITY", "GENERAL"}

DryRunId == "DRY_RUN_12345"
ExternalId == "42"

NoCorrections == [isNone |-> TRUE, override_category |-> None, notes |-> None]

\* The corrections argument: None, the empty dict, and dicts holding either
\* or both of the keys the pipeline reads.  A key whose field is None is
\* absent from the dict.
CorrectionsDomain ==
    { NoCorrections,
      [isNone |-> FALSE, override_category |-> None, notes |-> None],
      [isNone |-> FALSE, override_category |-> "UTILITY", notes |-> None],
      [isNone |-> FALSE, override_category |-> None, notes |-> "it is a water bill"],
      [isNone |-> FALSE, override_category |-> "UTILITY", notes |-> "it is a water bill"] }

\* Python truthiness of the corrections dict and of an optional string.
Truthy(v) == v # None

CorrectionsTruthy(c) ==
    ~c.isNone /\ (Truthy(c.override_category) \/ Truthy(c.notes))

\* --------------------------------------------------------------- variables
VARIABLES
    dev_mode,            \* self.dev_mode
    self_paperless_id,   \* self.paperless_id (None: create mode)
    corrections,         \* self.corrections
    fs,                  \* directory -> document stored under the filename
    processing_history,  \* rows of table processing_history, in insert order
    pending_documents,   \* rows of table pending_documents, in insert order
    pc,                  \* run -> position in process_document
    doc,                 \* run -> document the run was started on
    classification,      \* run -> local classification
    category,            \* run -> local category
    metadata,            \* run -> local metadata
    paperless_id,        \* run -> local paperless_id
    basicmemory_path,    \* run -> local basicmemory_path
    error,               \* run -> str(e) of the exception being handled
    result,              \* run -> returned dict
    calls,               \* run -> external calls and file moves, in order
    delivered,           \* what the last notifier.send() of the run returned
    db_exists,           \* classifier: self.db_path exists and takes inserts
    claude_code_logs,    \* rows of table claude_code_logs, in insert order
    ncalls,              \* classifier method invocations completed
    apc,                 \* position in the current classifier invocation
    method,              \* the classifier method invoked
    call_corrections,    \* the corrections argument of the invocation
    prompt_text,         \* _call_claude_code local prompt_text
    full_prompt,         \* _call_claude_code local full_prompt
    tmp_file,            \* the file at tmp_path: absent, or its content
    sent,                \* the prompt the agent process was run on
    response,            \* stdout of the agent process
    exc,                 \* the exception being propagated
    returned,            \* what the classifier method returned or raised
    response_text,       \* _extract_json: its argument
    extracted,           \* _extract_json: what it returned
    vault_files,         \* vault: note path -> content of the note file
    vault_dirs,          \* vault: the note folders that exist
    templates,           \* the CPS template files exist
    note,                \* what the last create_*_note call did
    doc_tags,            \* document store: tag ids of document ExternalId
    tag_registry,        \* document store: names of the tags that exist
    uploads,             \* document store: documents created by uploads
    paperless_result,    \* what the last PaperlessClient call returned
    required_tags,       \* tag ids the document had or an update resolved
    sync_category,       \* step 3: the category argument of the two helpers
    sync_metadata,       \* step 3: the metadata argument of the two helpers
    upload_args,         \* what _upload_to_paperless passed to upload_document
    update_args,         \* what _update_paperless_metadata passed to update_document
    updaters,            \* concurrent update_document calls: position and locals
    note_category,       \* _create_basicmemory_note: its category argument
    note_metadata        \* _create_basicmemory_note: its metadata argument

config == <<dev_mode, self_paperless_id, corrections>>
stores == <<fs, processing_history, pending_documents>>
locals == <<doc, classification, category, metadata, paperless_id,
            basicmemory_path, error, result>>
processor == <<stores, pc, locals, calls, delivered>>
adapter == <<db_exists, claude_code_logs, ncalls, apc, method,
             call_corrections, prompt_text, full_prompt, tmp_file, sent,
             response, exc, returned>>
extraction == <<response_text, extracted>>
vault == <<vault_files, vault_dirs, templates, note>>
store == <<doc_tags, tag_registry, uploads, paperless_result, required_tags>>
routing == <<sync_category, sync_metadata, upload_args, update_args>>
rendering == <<note_category, note_metadata>>
clients == <<extraction, vault, store, routing, updaters, rendering>>
vars == <<dev_mode, self_paperless_id, corrections, fs, processing_history,
          pending_documents, pc, doc, classification, category, metadata,
          paperless_id, basicmemory_path, error, result, calls, db_exists,
          claude_code_logs, ncalls, apc, method, call_corrections,
          prompt_text, full_prompt, tmp_file, sent, response, exc, returned,
          delivered, response_text, extracted, vault_files, vault_dirs,
          templates, note, doc_tags, tag_registry, uploads, paperless_result,
          required_tags, sync_category, sync_metadata, upload_args,
          update_args, updaters, note_category, note_metadata>>

NoClassification == [category |-> None, needs_clarification |-> FALSE, error |-> None]
NoMetadata == [kind |-> None, child |-> None]
NoResult == [status |-> None, category |-> None, paperless_id |-> None,
             basicmemory_path |-> None, error |-> None, traceback |-> None,
             processing_time_ms |-> None]

NoPrompt == << >>
NoReturn == [kind |-> None, exception |-> None, value |-> [k \in {} |-> None]]

\* ------------------------------------------------------------ construction
\* No classifier method is being invoked and none has been.
NoInvocation ==
    /\ claude_code_logs = << >>
    /\ ncalls = 0
    /\ apc = "idle"
    /\ method = None
    /\ call_corrections = NoCorrections
    /\ prompt_text = NoPrompt
    /\ full_prompt = NoPrompt
    /\ tmp_file = [exists |-> FALSE, content |-> NoPrompt]
    /\ sent = NoPrompt
    /\ response = [fenced |-> FALSE, object |-> None]
    /\ exc = None
    /\ returned = NoReturn

\* _extract_json has not been applied.
NoExtract == [applied |-> FALSE, found |-> FALSE, text |-> << >>]
NoExtraction ==
    /\ response_text = << >>
    /\ extracted = NoExtract

\* No note path, no note content.
NoPath == [folder |-> None, slug |-> None, counter |-> 0]
NoContent == [method |-> None, slug |-> None, body |-> None]
NoFiles == [p \in {} |-> NoContent]
NoNote == [called |-> FALSE, method |-> None, dry_run |-> FALSE, raised |-> FALSE,
           path |-> NoPath, content |-> NoContent]

\* The vaults hold no note; the templates are in place.
NoVault ==
    /\ vault_files = NoFiles
    /\ vault_dirs = {}
    /\ templates = TRUE
    /\ note = NoNote

\* No PaperlessClient call has been made.
NoPaperlessResult ==
    [op |-> None, success |-> FALSE, document_id |-> None, task_id |-> None,
     dry_run |-> FALSE, tags |-> {}]

\* The document store holds document ExternalId without tags, and no tag.
NoStore ==
    /\ doc_tags = {}
    /\ tag_registry = {}
    /\ uploads = 0
    /\ paperless_result = NoPaperlessResult
    /\ required_tags = {}

\* Neither helper of step 3 has been called.
NoArgs == [called |-> FALSE, tags |-> << >>, document_type |-> None]
NoRouting ==
    /\ sync_category = None
    /\ sync_metadata = [child |-> None]
    /\ upload_args = NoArgs
    /\ update_args = NoArgs

\* The update_document calls that may run side by side, none of them begun.
Updaters == {"first", "second"}
NoUpdate == [pc |-> "idle", tags |-> {}, existing |-> {}, tag_ids |-> {},
             success |-> FALSE]
NoUpdaters == updaters = [u \in Updaters |-> NoUpdate]

\* _create_basicmemory_note has no arguments yet.
NoRendering ==
    /\ note_category = None
    /\ note_metadata = [k \in {} |-> None]

NoClients ==
    /\ NoExtraction
    /\ NoVault
    /\ NoStore
    /\ NoRouting
    /\ NoUpdaters
    /\ NoRendering

\* The directories and the two tables are empty and no run has started.
NoRun ==
    /\ fs = [d \in Dirs |-> NoDoc]
    /\ processing_history = << >>
    /\ pending_documents = << >>
    /\ pc = [r \in Runs |-> "idle"]
    /\ doc = [r \in Runs |-> NoDoc]
    /\ classification = [r \in Runs |-> NoClassification]
    /\ category = [r \in Runs |-> None]
    /\ metadata = [r \in Runs |-> NoMetadata]
    /\ paperless_id = [r \in Runs |-> None]
    /\ basicmemory_path = [r \in Runs |-> None]
    /\ error = [r \in Runs |-> None]
    /\ result = [r \in Runs |-> NoResult]
    /\ calls = [r \in Runs |-> << >>]
    /\ delivered = None

Init ==
    /\ db_exists = TRUE
    /\ NoInvocation
    /\ dev_mode \in BOOLEAN
    /\ self_paperless_id \in {None, ExternalId}
    /\ corrections \in CorrectionsDomain
    /\ NoRun
    /\ NoClients

\* ------------------------------------------------------ pure helper tables
\* Categories for which _extract_metadata calls an extract_* method.
ExtractorCategories ==
    {"CPS-MEDICAL", "CPS-EXPENSE", "CPS-SCHOOLWORK", "PERSONAL-MEDICAL",
     "PERSONAL-EXPENSE", "UTILITY", "AUTO-INSURANCE", "AUTO-MAINTENANCE",
     "AUTO-REGISTRATION"}

\* Categories for which step 4 of process_document calls
\* _create_basicmemory_note.
Step4Categories == {"MEDICAL", "CPS_EXPENSE"}

\* Categories for which _create_basicmemory_note calls a create_*_note
\* method of the vault router; every other category yields None.
NoteCategories ==
    {"CPS-MEDICAL", "CPS-EXPENSE", "PERSONAL-MEDICAL", "PERSONAL-EXPENSE",
     "UTILITY", "AUTO-INSURANCE", "AUTO-MAINTENANCE", "AUTO-REGISTRATION"}

\* A copy instead of a move: the source keeps the file.
CopyFile(f, src, dst) == [f EXCEPT ![dst] = f[src]]

\* shutil.move(src, dst) of the file: the name leaves src and (re)places
\* whatever dst held under that name.
MoveFile(f, src, dst) == [f EXCEPT ![dst] = f[src], ![src] = NoDoc]

Exists(f, d) == f[d] # NoDoc

\* int((time.time() - start_time) * 1000): always an integer, never None.
ElapsedMs == "elapsed_ms"

\* json.dumps of a corrections dict: the text of a JSON object, here the
\* sequence of its members in the dict's order.
JsonDumps(c) ==
    (IF Truthy(c.override_category)
     THEN << <<"override_category", c.override_category>> >> ELSE << >>)
    \o (IF Truthy(c.notes) THEN << <<"notes", c.notes>> >> ELSE << >>)

\* json.loads of such a text: the dict holding the members of the text.
JsonLoads(t) ==
    LET Member(k) == IF \E i \in 1..Len(t) : t[i][1] = k
                     THEN t[CHOOSE i \in 1..Len(t) : t[i][1] = k][2]
                     ELSE None
    IN [isNone |-> FALSE, override_category |-> Member("override_category"),
        notes |-> Member("notes")]

\* A TEXT column of the ledger: NULL or a text.
SqlNull == [null |-> TRUE, text |-> << >>]
SqlText(t) == [null |-> FALSE, text |-> t]

\* The text keeps the first member of the dict only.
CorrectionsJsonFirstMember(c) ==
    IF CorrectionsTruthy(c) THEN SqlText(SubSeq(JsonDumps(c), 1, 1)) ELSE SqlNull

\* json.dumps(corrections) if corrections else None
CorrectionsJson(c) == IF CorrectionsTruthy(c) THEN SqlText(JsonDumps(c)) ELSE SqlNull

\* The files_created list of lines 173-185: an entry per truthy artifact.
FilesCreated(pid, bmpath) ==
    (IF Truthy(pid) THEN << [type |-> "paperless", id |-> pid] >> ELSE << >>)
    \o (IF Truthy(bmpath) THEN << [type |-> "basicmemory", id |-> bmpath] >>
        ELSE << >>)

\* json.dumps(files_created) if files_created else None
FilesCreatedJson(files) == IF files # << >> THEN SqlText(files) ELSE SqlNull

\* The row _log_to_history inserts.
HistoryRow(r, cat, status, pid, bmpath, ms, err, corr) ==
    [run |-> r, category |-> cat, status |-> status, paperless_id |-> pid,
     basicmemory_path |-> bmpath, processing_time_ms |-> ms,
     error_message |-> err,
     files_created |-> FilesCreatedJson(FilesCreated(pid, bmpath)),
     corrections |-> CorrectionsJson(corr)]

\* The row _handle_clarification_needed inserts.
PendingRow(r, cls) ==
    [run |-> r, category |-> cls.category,
     question |-> IF Truthy(cls.error) THEN "Failed to classify" ELSE "agent question"]

\* classify_document's degraded result (its except branch).
DegradedClassification ==
    [category |-> "GENERAL", needs_clarification |-> TRUE,
     error |-> "Claude Code failed"]

\* What the classification agent may answer when the call succeeds.
AgentClassifications ==
    [category : AgentCategories, needs_clarification : BOOLEAN, error : {None}]

\* What an extract_*_metadata method may return: the agent's object or the
\* method's fallback object.
ExtractedMetadata ==
    { [kind |-> "extracted", child |-> None],
      [kind |-> "extracted", child |-> "Morgan"],
      [kind |-> "fallback", child |-> None] }

EmptyMetadata == [kind |-> "empty", child |-> None]

Log(r, e) == calls' = [calls EXCEPT ![r] = Append(@, e)]

\* NotificationHandler.send: True when the message was posted; False when
\* the handler is disabled or the post failed (the exception is swallowed).
SendResults == {"True", "False"}
Send == \E ok \in SendResults : delivered' = ok

\* The except clause of process_document is entered with str(e) = msg.
Raise(r, msg) ==
    /\ error' = [error EXCEPT ![r] = msg]
    /\ pc' = [pc EXCEPT ![r] = "h_move"]

\* ---------------------------------------------------------------- actions
\* One process_document invocation at a time: a document arrives in
\* incoming/ (unless one is still waiting there) and the run is started on it.
Start(r) ==
    /\ pc[r] = "idle"
    /\ \A q \in Runs : q < r => pc[q] = "exited"
    /\ fs' = IF Exists(fs, "incoming") THEN fs ELSE [fs EXCEPT !["incoming"] = r]
    /\ doc' = [doc EXCEPT ![r] = fs'["incoming"]]
    /\ pc' = [pc EXCEPT ![r] = "move_in"]
    /\ UNCHANGED <<adapter, clients, delivered, config,
                   processing_history, pending_documents, classification,
                   category, metadata, paperless_id, basicmemory_path, error,
                   result, calls>>

\* notify_processing_started dispatched before the file is moved.
NotifyStartedThenMove(r) ==
    /\ pc[r] = "move_in"
    /\ Exists(fs, "incoming")
    /\ fs' = MoveFile(fs, "incoming", "processing")
    /\ calls' = [calls EXCEPT ![r] = @ \o <<"notify_started", "move_processing">>]
    /\ Send
    /\ pc' = [pc EXCEPT ![r] = "classify"]
    /\ UNCHANGED <<adapter, clients, config,
                   processing_history, pending_documents, locals>>

\* shutil.move(file_path, processing_path)
MoveToProcessing(r) ==
    /\ pc[r] = "move_in"
    /\ Exists(fs, "incoming")
    /\ fs' = MoveFile(fs, "incoming", "processing")
    /\ Log(r, "move_processing")
    /\ pc' = [pc EXCEPT ![r] = "classify"]
    /\ UNCHANGED <<adapter, clients, delivered, config,
                   processing_history, pending_documents, locals>>

MoveToProcessingRaises(r) ==
    /\ pc[r] = "move_in"
    /\ Raise(r, "move to processing failed")
    /\ UNCHANGED <<adapter, clients, delivered, config,
                   stores, doc, classification, category, metadata,
                   paperless_id, basicmemory_path, result, calls>>

\* The needs_clarification test left out: every classified run extracts.
ClassifyIgnoresClarification(r) ==
    /\ pc[r] = "classify"
    /\ Exists(fs, "processing")
    /\ \E answer \in AgentClassifications \cup {DegradedClassification} :
         LET overridden == CorrectionsTruthy(corrections)
                           /\ Truthy(corrections.override_category)
             cat == IF overridden THEN corrections.override_category
                    ELSE answer.category
             cls == [answer EXCEPT !.category = cat]
         IN /\ classification' = [classification EXCEPT ![r] = cls]
            /\ category' = [category EXCEPT ![r] = cat]
            /\ pc' = [pc EXCEPT ![r] = "extract"]
    /\ Log(r, "agent_classify")
    /\ UNCHANGED <<adapter, clients, delivered, config,
                   stores, doc, metadata, paperless_id,
                   basicmemory_path, error, result>>

\* The override branch taking the category without calling the agent.
ClassifySkipsAgentOnOverride(r) ==
    /\ pc[r] = "classify"
    /\ Exists(fs, "processing")
    /\ \E answer \in AgentClassifications \cup {DegradedClassification} :
         LET overridden == CorrectionsTruthy(corrections)
                           /\ Truthy(corrections.override_category)
             cat == IF overridden THEN corrections.override_category
                    ELSE answer.category
             cls == IF overridden
                    THEN [NoClassification EXCEPT !.category = cat]
                    ELSE answer
         IN /\ classification' = [classification EXCEPT ![r] = cls]
            /\ category' = [category EXCEPT ![r] = cat]
            /\ pc' = [pc EXCEPT ![r] =
                        IF cls.needs_clarification THEN "clarify" ELSE "extract"]
            /\ IF overridden THEN UNCHANGED calls ELSE Log(r, "agent_classify")
    /\ UNCHANGED <<adapter, clients, delivered, config,
                   stores, doc, metadata, paperless_id,
                   basicmemory_path, error, result>>

\* The agent failure is not absorbed: the degraded result is set and the run
\* enters the except branch.
ClassifyFailsOnAgentFailure(r) ==
    /\ pc[r] = "classify"
    /\ Exists(fs, "processing")
    /\ \E answer \in AgentClassifications \cup {DegradedClassification} :
         LET overridden == CorrectionsTruthy(corrections)
                           /\ Truthy(corrections.override_category)
             cat == IF overridden THEN corrections.override_category
                    ELSE answer.category
             cls == [answer EXCEPT !.category = cat]
         IN /\ classification' = [classification EXCEPT ![r] = cls]
            /\ category' = [category EXCEPT ![r] = cat]
            /\ IF Truthy(cls.error)
               THEN Raise(r, cls.error)
               ELSE /\ pc' = [pc EXCEPT ![r] =
                          IF cls.needs_clarification THEN "clarify" ELSE "extract"]
                    /\ UNCHANGED error
    /\ Log(r, "agent_classify")
    /\ UNCHANGED <<adapter, clients, delivered, config,
                   stores, doc, metadata, paperless_id,
                   basicmemory_path, result>>

\* Step 1: classify_document, then the override of lines 98-106 and the
\* needs_clarification test of line 111.
Classify(r) ==
    /\ pc[r] = "classify"
    /\ Exists(fs, "processing")
    /\ \E answer \in AgentClassifications \cup {DegradedClassification} :
         LET overridden == CorrectionsTruthy(corrections)
                           /\ Truthy(corrections.override_category)
             cat == IF overridden THEN corrections.override_category
                    ELSE answer.category
             cls == [answer EXCEPT !.category = cat]
         IN /\ classification' = [classification EXCEPT ![r] = cls]
            /\ category' = [category EXCEPT ![r] = cat]
            /\ pc' = [pc EXCEPT ![r] =
                        IF cls.needs_clarification THEN "clarify" ELSE "extract"]
    /\ Log(r, "agent_classify")
    /\ UNCHANGED <<adapter, clients, delivered, config,
                   stores, doc, metadata, paperless_id,
                   basicmemory_path, error, result>>

\* classify_document raises FileNotFoundError (document or classifier prompt
\* missing) before its try block.
ClassifyRaises(r) ==
    /\ pc[r] = "classify"
    /\ Raise(r, "Document or classifier prompt not found")
    /\ UNCHANGED <<adapter, clients, delivered, config,
                   stores, doc, classification, category, metadata,
                   paperless_id, basicmemory_path, result, calls>>

\* Lines 111-118 with _handle_clarification_needed: INSERT, notify, return.
HandleClarification(r) ==
    /\ pc[r] = "clarify"
    /\ pending_documents' = Append(pending_documents, PendingRow(r, classification[r]))
    /\ calls' = [calls EXCEPT ![r] = @ \o <<"insert_pending", "notify_clarification">>]
    /\ result' = [result EXCEPT ![r] =
                    [NoResult EXCEPT !.status = "pending_clarification",
                                     !.category = category[r],
                                     !.processing_time_ms = ElapsedMs]]
    /\ Send
    /\ pc' = [pc EXCEPT ![r] = "returned"]
    /\ UNCHANGED <<adapter, clients, config,
                   fs, processing_history, doc, classification, category,
                   metadata, paperless_id, basicmemory_path, error>>

\* sqlite3 raises in _handle_clarification_needed: nothing is committed.
HandleClarificationRaises(r) ==
    /\ pc[r] = "clarify"
    /\ Raise(r, "sqlite3 error on pending_documents")
    /\ UNCHANGED <<adapter, clients, delivered, config,
                   stores, doc, classification, category, metadata,
                   paperless_id, basicmemory_path, result, calls>>

\* Every category is sent to the extraction agent.
ExtractAlwaysCallsAgent(r) ==
    /\ pc[r] = "extract"
    /\ Exists(fs, "processing")
    /\ \E m \in ExtractedMetadata : metadata' = [metadata EXCEPT ![r] = m]
    /\ Log(r, "agent_extract")
    /\ pc' = [pc EXCEPT ![r] = "sync"]
    /\ UNCHANGED <<adapter, clients, delivered, config,
                   stores, doc, classification, category, paperless_id,
                   basicmemory_path, error, result>>

\* The needs_clarification of the metadata is consulted as well: a fallback
\* sends the run to the clarification branch.
ExtractConsultsClarification(r) ==
    /\ pc[r] = "extract"
    /\ IF category[r] \in ExtractorCategories
       THEN /\ Exists(fs, "processing")
            /\ \E m \in ExtractedMetadata :
                 /\ metadata' = [metadata EXCEPT ![r] = m]
                 /\ pc' = [pc EXCEPT ![r] =
                             IF m.kind = "fallback" THEN "clarify" ELSE "sync"]
            /\ Log(r, "agent_extract")
       ELSE /\ metadata' = [metadata EXCEPT ![r] = EmptyMetadata]
            /\ pc' = [pc EXCEPT ![r] = "sync"]
            /\ UNCHANGED calls
    /\ UNCHANGED <<adapter, clients, delivered, config,
                   stores, doc, classification, category, paperless_id,
                   basicmemory_path, error, result>>

\* Step 2: _extract_metadata.
Extract(r) ==
    /\ pc[r] = "extract"
    /\ IF category[r] \in ExtractorCategories
       THEN /\ Exists(fs, "processing")
            /\ \E m \in ExtractedMetadata : metadata' = [metadata EXCEPT ![r] = m]
            /\ Log(r, "agent_extract")
       ELSE /\ metadata' = [metadata EXCEPT ![r] = EmptyMetadata]
            /\ UNCHANGED calls
    /\ pc' = [pc EXCEPT ![r] = "sync"]
    /\ UNCHANGED <<adapter, clients, delivered, config,
                   stores, doc, classification, category, paperless_id,
                   basicmemory_path, error, result>>

\* extract_*_metadata raises FileNotFoundError (document or prompt missing)
\* before its try block.
ExtractRaises(r) ==
    /\ pc[r] = "extract"
    /\ category[r] \in ExtractorCategories
    /\ Raise(r, "Document or extraction prompt not found")
    /\ UNCHANGED <<adapter, clients, delivered, config,
                   stores, doc, classification, category, metadata,
                   paperless_id, basicmemory_path, result, calls>>

\* The update branch left out: every run uploads a new document.
SyncAlwaysUploads(r) ==
    /\ pc[r] = "sync"
    /\ Exists(fs, "processing")
    /\ \E ok \in (IF dev_mode THEN {TRUE} ELSE BOOLEAN) :
         Log(r, IF ok THEN "paperless_upload_ok" ELSE "paperless_upload_failed")
    /\ paperless_id' = [paperless_id EXCEPT ![r] =
                          IF dev_mode THEN DryRunId ELSE None]
    /\ pc' = [pc EXCEPT ![r] = "note"]
    /\ UNCHANGED <<adapter, clients, delivered, config,
                   stores, doc, classification, category, metadata,
                   basicmemory_path, error, result>>

\* Step 3: _update_paperless_metadata / _upload_to_paperless; the client
\* returns a result dict.  Dry-run always reports success.
Sync(r) ==
    /\ pc[r] = "sync"
    /\ IF Truthy(self_paperless_id)
       THEN /\ \E ok \in (IF dev_mode THEN {TRUE} ELSE BOOLEAN) :
                 Log(r, IF ok THEN "paperless_update_ok" ELSE "paperless_update_failed")
            /\ paperless_id' = [paperless_id EXCEPT ![r] = self_paperless_id]
       ELSE /\ Exists(fs, "processing")
            /\ \E ok \in (IF dev_mode THEN {TRUE} ELSE BOOLEAN) :
                 Log(r, IF ok THEN "paperless_upload_ok" ELSE "paperless_upload_failed")
            /\ paperless_id' = [paperless_id EXCEPT ![r] =
                                  IF dev_mode THEN DryRunId ELSE None]
    /\ pc' = [pc EXCEPT ![r] = "note"]
    /\ UNCHANGED <<adapter, clients, delivered, config,
                   stores, doc, classification, category, metadata,
                   basicmemory_path, error, result>>

\* upload_document raises: FileNotFoundError when the file is gone, or the
\* open() of the file fails (only reached outside dry-run).
SyncRaises(r) ==
    /\ pc[r] = "sync"
    /\ ~Truthy(self_paperless_id)
    /\ ~Exists(fs, "processing") \/ ~dev_mode
    /\ Log(r, "paperless_upload_raised")
    /\ Raise(r, "upload_document raised")
    /\ UNCHANGED <<adapter, clients, delivered, config,
                   stores, doc, classification, category, metadata,
                   paperless_id, basicmemory_path, result>>

\* Step 4: the category test of line 144 and _create_basicmemory_note, whose
\* try/except turns every exception of a create_*_note method into None.
Note(r) ==
    /\ pc[r] = "note"
    /\ IF category[r] \in Step4Categories /\ category[r] \in NoteCategories
       THEN /\ \E path \in {None, "vault/note.md"} :
                 basicmemory_path' = [basicmemory_path EXCEPT ![r] = path]
            /\ Log(r, "vault_render")
       ELSE /\ basicmemory_path' = [basicmemory_path EXCEPT ![r] = None]
            /\ UNCHANGED calls
    /\ pc' = [pc EXCEPT ![r] = "notify"]
    /\ UNCHANGED <<adapter, clients, delivered, config,
                   stores, doc, classification, category, metadata,
                   paperless_id, error, result>>

\* The file moved to completed/ first and the notification sent after it.
NotifyAfterMove(r) ==
    /\ pc[r] = "notify"
    /\ Exists(fs, "processing")
    /\ fs' = MoveFile(fs, "processing", "completed")
    /\ calls' = [calls EXCEPT ![r] = @ \o <<"move_completed", "notify_completed">>]
    /\ Send
    /\ pc' = [pc EXCEPT ![r] = "log"]
    /\ UNCHANGED <<adapter, clients, config,
                   processing_history, pending_documents, locals>>

\* A notification that could not be delivered raises into the handler.
NotifyRaisesWhenUndelivered(r) ==
    /\ pc[r] = "notify"
    /\ Log(r, "notify_completed")
    /\ \E ok \in SendResults :
         /\ delivered' = ok
         /\ IF ok = "True"
            THEN pc' = [pc EXCEPT ![r] = "move_done"] /\ UNCHANGED error
            ELSE Raise(r, "Failed to send Pushover notification")
    /\ UNCHANGED <<adapter, clients, config, stores, doc, classification,
                   category, metadata, paperless_id, basicmemory_path, result>>

\* Step 5: notifier.notify_processing_completed (send never raises).
Notify(r) ==
    /\ pc[r] = "notify"
    /\ Log(r, "notify_completed")
    /\ Send
    /\ pc' = [pc EXCEPT ![r] = "move_done"]
    /\ UNCHANGED <<adapter, clients, config,
                   stores, locals>>

\* shutil.move(processing_path, completed_path)
MoveToCompleted(r) ==
    /\ pc[r] = "move_done"
    /\ Exists(fs, "processing")
    /\ fs' = MoveFile(fs, "processing", "completed")
    /\ Log(r, "move_completed")
    /\ pc' = [pc EXCEPT ![r] = "log"]
    /\ UNCHANGED <<adapter, clients, delivered, config,
                   processing_history, pending_documents, locals>>

MoveToCompletedRaises(r) ==
    /\ pc[r] = "move_done"
    /\ Raise(r, "move to completed failed")
    /\ UNCHANGED <<adapter, clients, delivered, config,
                   stores, doc, classification, category, metadata,
                   paperless_id, basicmemory_path, result, calls>>

\* The success path returning without the ledger insert.
LogSuccessSkipsInsert(r) ==
    /\ pc[r] = "log"
    /\ result' = [result EXCEPT ![r] =
                    [NoResult EXCEPT !.status = "success",
                                     !.category = category[r],
                                     !.paperless_id = paperless_id[r],
                                     !.basicmemory_path = basicmemory_path[r],
                                     !.processing_time_ms = ElapsedMs]]
    /\ pc' = [pc EXCEPT ![r] = "returned"]
    /\ UNCHANGED <<adapter, clients, delivered, config,
                   stores, doc, classification, category,
                   metadata, paperless_id, basicmemory_path, error, calls>>

\* The insert replaces the rows the ledger held for the filename.
LogSuccessReplacesRows(r) ==
    /\ pc[r] = "log"
    /\ processing_history' =
           << HistoryRow(r, category[r], "success", paperless_id[r],
                         basicmemory_path[r], ElapsedMs, None, corrections) >>
    /\ Log(r, "log_success")
    /\ result' = [result EXCEPT ![r] =
                    [NoResult EXCEPT !.status = "success",
                                     !.category = category[r],
                                     !.paperless_id = paperless_id[r],
                                     !.basicmemory_path = basicmemory_path[r],
                                     !.processing_time_ms = ElapsedMs]]
    /\ pc' = [pc EXCEPT ![r] = "returned"]
    /\ UNCHANGED <<adapter, clients, delivered, config,
                   fs, pending_documents, doc, classification, category,
                   metadata, paperless_id, basicmemory_path, error>>

\* _log_to_history(status='success', ...) and the return of lines 206-212.
LogSuccess(r) ==
    /\ pc[r] = "log"
    /\ processing_history' = Append(processing_history,
           HistoryRow(r, category[r], "success", paperless_id[r],
                      basicmemory_path[r], ElapsedMs, None, corrections))
    /\ Log(r, "log_success")
    /\ result' = [result EXCEPT ![r] =
                    [NoResult EXCEPT !.status = "success",
                                     !.category = category[r],
                                     !.paperless_id = paperless_id[r],
                                     !.basicmemory_path = basicmemory_path[r],
                                     !.processing_time_ms = ElapsedMs]]
    /\ pc' = [pc EXCEPT ![r] = "returned"]
    /\ UNCHANGED <<adapter, clients, delivered, config,
                   fs, pending_documents, doc, classification, category,
                   metadata, paperless_id, basicmemory_path, error>>

\* sqlite3 raises in _log_to_history: nothing is committed.
LogSuccessRaises(r) ==
    /\ pc[r] = "log"
    /\ Raise(r, "sqlite3 error on processing_history")
    /\ UNCHANGED <<adapter, clients, delivered, config,
                   stores, doc, classification, category, metadata,
                   paperless_id, basicmemory_path, result, calls>>

\* except branch, lines 228-239: move the file to failed/ from processing/,
\* else from its source path; an exception of the move is swallowed.
HandlerMove(r) ==
    /\ pc[r] = "h_move"
    /\ IF Exists(fs, "processing")
       THEN fs' = MoveFile(fs, "processing", "failed") /\ Log(r, "move_failed")
       ELSE IF Exists(fs, "incoming")
            THEN fs' = MoveFile(fs, "incoming", "failed") /\ Log(r, "move_failed")
            ELSE UNCHANGED <<fs, calls>>
    /\ pc' = [pc EXCEPT ![r] = "h_notify"]
    /\ UNCHANGED <<adapter, clients, delivered, config,
                   processing_history, pending_documents, locals>>

HandlerMoveRaises(r) ==
    /\ pc[r] = "h_move"
    /\ Exists(fs, "processing") \/ Exists(fs, "incoming")
    /\ pc' = [pc EXCEPT ![r] = "h_notify"]
    /\ UNCHANGED <<adapter, clients, delivered, config,
                   stores, locals, calls>>

\* The dev-mode test left out: the failure notification is always sent.
HandlerNotifyAlways(r) ==
    /\ pc[r] = "h_notify"
    /\ Log(r, "notify_failed")
    /\ Send
    /\ pc' = [pc EXCEPT ![r] = "h_log"]
    /\ UNCHANGED <<adapter, clients, config,
                   stores, locals>>

\* Lines 241-245: failure notification, skipped in dev mode.
HandlerNotify(r) ==
    /\ pc[r] = "h_notify"
    /\ IF ~dev_mode THEN Log(r, "notify_failed") /\ Send
       ELSE UNCHANGED <<calls, delivered>>
    /\ pc' = [pc EXCEPT ![r] = "h_log"]
    /\ UNCHANGED <<adapter, clients, config,
                   stores, locals>>

\* Lines 247-264: _log_to_history(status='failed', ...) and the return.
HandlerLog(r) ==
    /\ pc[r] = "h_log"
    /\ processing_history' = Append(processing_history,
           HistoryRow(r, "UNKNOWN", "failed", None, None, ElapsedMs,
                      error[r], corrections))
    /\ Log(r, "log_failed")
    /\ result' = [result EXCEPT ![r] =
                    [NoResult EXCEPT !.status = "failed",
                                     !.error = error[r],
                                     !.traceback = IF dev_mode THEN "traceback" ELSE None,
                                     !.processing_time_ms = ElapsedMs]]
    /\ pc' = [pc EXCEPT ![r] = "returned"]
    /\ UNCHANGED <<adapter, clients, delivered, config,
                   fs, pending_documents, doc, classification, category,
                   metadata, paperless_id, basicmemory_path, error>>

\* sqlite3 raises in the handler's _log_to_history: the exception leaves
\* process_document.
HandlerLogRaises(r) ==
    /\ pc[r] = "h_log"
    /\ pc' = [pc EXCEPT ![r] = "raised"]
    /\ UNCHANGED <<adapter, clients, delivered, config,
                   stores, locals, calls>>

\* The invocation is over; its locals are gone.
Exit(r) ==
    /\ pc[r] \in {"returned", "raised"}
    /\ pc' = [pc EXCEPT ![r] = "exited"]
    /\ doc' = [doc EXCEPT ![r] = NoDoc]
    /\ classification' = [classification EXCEPT ![r] = NoClassification]
    /\ category' = [category EXCEPT ![r] = None]
    /\ metadata' = [metadata EXCEPT ![r] = NoMetadata]
    /\ paperless_id' = [paperless_id EXCEPT ![r] = None]
    /\ basicmemory_path' = [basicmemory_path EXCEPT ![r] = None]
    /\ error' = [error EXCEPT ![r] = None]
    /\ result' = [result EXCEPT ![r] = NoResult]
    /\ calls' = [calls EXCEPT ![r] = << >>]
    /\ delivered' = None
    /\ UNCHANGED <<adapter, clients, config,
                   stores>>

Next ==
    \E r \in Runs :
        \/ Start(r)
        \/ MoveToProcessing(r)
        \/ MoveToProcessingRaises(r)
        \/ Classify(r)
        \/ ClassifyRaises(r)
        \/ HandleClarification(r)
        \/ HandleClarificationRaises(r)
        \/ Extract(r)
        \/ ExtractRaises(r)
        \/ Sync(r)
        \/ SyncRaises(r)
        \/ Note(r)
        \/ Notify(r)
        \/ MoveToCompleted(r)
        \/ MoveToCompletedRaises(r)
        \/ LogSuccess(r)
        \/ LogSuccessRaises(r)
        \/ HandlerMove(r)
        \/ HandlerMoveRaises(r)
        \/ HandlerNotify(r)
        \/ HandlerLog(r)
        \/ HandlerLogRaises(r)
        \/ Exit(r)

Spec == Init /\ [][Next]_vars

\* process_document is sequential, blocking code: while an invocation can
\* take a step (every external call returns or fails), it takes one.
LiveSpec == Init /\ [][Next]_vars /\ WF_vars(Next)

TypeOK ==
    /\ pc \in [Runs -> {"idle", "move_in", "classify", "clarify", "extract",
                        "sync", "note", "notify", "move_done", "log", "h_move",
                        "h_notify", "h_log", "returned", "raised", "exited"}]
    /\ fs \in [Dirs -> Docs \cup {NoDoc}]

\* --------------------------------------------------- DocumentClassifier
Methods ==
    {"classify_document", "extract_medical_metadata", "extract_expense_metadata",
     "extract_schoolwork_metadata", "extract_personal_medical_metadata",
     "extract_personal_expense_metadata", "extract_utility_metadata",
     "extract_auto_metadata"}

\* Stem of the prompt file each method passes to _call_claude_code.
PromptFile(m) ==
    CASE m = "classify_document" -> "classifier"
      [] m = "extract_medical_metadata" -> "medical"
      [] m = "extract_expense_metadata" -> "expense"
      [] m = "extract_schoolwork_metadata" -> "schoolwork"
      [] m = "extract_personal_medical_metadata" -> "personal-medical"
      [] m = "extract_personal_expense_metadata" -> "personal-expense"
      [] m = "extract_utility_metadata" -> "utility"
      [] m = "extract_auto_metadata" -> "auto"

\* _get_prompt_type: the substring tests, in the order of the code; the test
\* for 'medical' without 'personal' comes before the personal ones.
GetPromptType(stem) ==
    CASE stem = "classifier" -> "classifier"
      [] stem = "medical" -> "medical"
      [] stem = "expense" -> "expense"
      [] stem = "schoolwork" -> "schoolwork"
      [] stem = "personal-medical" -> "personal-medical"
      [] stem = "personal-expense" -> "personal-expense"
      [] stem = "utility" -> "utility"
      [] stem = "auto" -> "auto"
      [] OTHER -> "unknown"

\* A text is the sequence of its sections; concatenation is \o.
PromptText(stem) == << [section |-> "prompt", text |-> stem] >>

NotesSection == "USER CORRECTIONS / GUIDANCE"

\* full_prompt without the corrections block.
FullPromptWithoutNotes(text, c) ==
    text \o << [section |-> "Please analyze this PDF file", text |-> "file_path"] >>

\* full_prompt of _call_claude_code: the prompt text, the file instruction
\* and, when corrections carry notes, the delimited notes block.
FullPrompt(text, c) ==
    text
    \o << [section |-> "Please analyze this PDF file", text |-> "file_path"] >>
    \o (IF CorrectionsTruthy(c) /\ Truthy(c.notes)
        THEN << [section |-> NotesSection, text |-> c.notes],
                [section |-> "Please take these corrections into account",
                 text |-> ""] >>
        ELSE << >>)

\* stdout of an agent process that exited 0: whether it holds a {...}
\* object, fenced or bare, and whether that object is valid JSON.
NoResponse == [fenced |-> FALSE, object |-> None]
Responses ==
    { [fenced |-> TRUE, object |-> "valid"],
      [fenced |-> FALSE, object |-> "valid"],
      [fenced |-> FALSE, object |-> "malformed"],
      [fenced |-> FALSE, object |-> "absent"] }

\* _extract_json: the matched object text, or None.
ExtractJson(text) ==
    IF text.object \in {"valid", "malformed"} THEN text.object ELSE None

TimeoutMessage == "Timeout after 300 seconds"
ExitCodeMessage == "Claude Code failed: stderr"
NoJsonMessage == "No JSON found in Claude Code response"
JsonDecodeMessage == "Expecting property name enclosed in double quotes"
PromptUnreadableMessage == "Permission denied: prompt file"

\* The dict _call_claude_code returns: the agent's object with _prompt and
\* _response added.
AgentData(prompt, text) ==
    [confidence |-> "0.9", prompt_ |-> prompt, response_ |-> text]

\* classify_document's except branch.
DegradedResult(e) ==
    [category |-> "GENERAL", confidence |-> "0.0", error |-> e,
     needs_clarification |-> TRUE,
     clarification_question |->
        "Failed to classify with Claude Code. Please review manually."]

\* A method whose except branch returns the empty dict.
EmptyFallback(m, e) == [k \in {} |-> None]

\* The except branch of each method: its fixed fallback dict.
Fallback(m, e) ==
    CASE m = "classify_document" -> DegradedResult(e)
      [] m = "extract_medical_metadata" ->
            [child |-> None, date |-> None, provider |-> None,
             type |-> "Medical Visit", diagnosis |-> None, treatment |-> None,
             cost |-> None, needs_clarification |-> TRUE,
             clarification_question |-> <<"Failed to extract medical metadata", e>>]
      [] m = "extract_expense_metadata" ->
            [child |-> None, date |-> None, vendor |-> None, amount |-> None,
             category |-> None, description |-> None, reimbursable |-> "no",
             needs_clarification |-> TRUE,
             clarification_question |-> <<"Failed to extract expense metadata", e>>]
      [] m = "extract_schoolwork_metadata" ->
            [child |-> None, subject |-> None, type |-> None, grade |-> None,
             date |-> None, tags |-> <<"schoolwork">>]
      [] m = "extract_personal_medical_metadata" ->
            [date |-> None, provider |-> None, type |-> "office-visit",
             specialty |-> None, diagnosis |-> None, treatment |-> None,
             cost |-> None, needs_clarification |-> TRUE,
             clarification_question |->
                <<"Failed to extract personal medical metadata", e>>]
      [] m = "extract_personal_expense_metadata" ->
            [date |-> None, vendor |-> None, amount |-> None,
             category |-> "other", payment_method |-> None,
             needs_clarification |-> TRUE,
             clarification_question |->
                <<"Failed to extract personal expense metadata", e>>]
      [] m = "extract_utility_metadata" ->
            [date |-> None, provider |-> None, type |-> "electric",
             amount |-> None, due_date |-> None, account_number |-> None,
             needs_clarification |-> TRUE,
             clarification_question |-> <<"Failed to extract utility metadata", e>>]
      [] m = "extract_auto_metadata" ->
            [date |-> None, type |-> "other-service", provider |-> None,
             amount |-> None, vehicle |-> None, mileage |-> None,
             needs_clarification |-> TRUE,
             clarification_question |-> <<"Failed to extract auto metadata", e>>]

\* The row _log_claude_interaction would insert.
InteractionRow(content, text, ok, msg) ==
    [call |-> ncalls + 1, prompt_type |-> GetPromptType(PromptFile(method)),
     prompt_content |-> content, response_content |-> text,
     success |-> ok, error_message |-> msg]

\* _log_claude_interaction: nothing is written, and nothing raised, when the
\* database file is missing or the insert fails.
LogClaudeInteraction(row) ==
    claude_code_logs' = IF db_exists THEN Append(claude_code_logs, row)
                        ELSE claude_code_logs

\* ---------------------------------------------------- classifier actions
\* A method is called on an existing document with its prompt file present
\* and enters its try block, calling _call_claude_code.
Invoke(m, c) ==
    /\ apc = "idle"
    /\ ncalls < MaxCalls
    /\ method' = m
    /\ call_corrections' = c
    /\ apc' = "read_prompt"
    /\ UNCHANGED <<config, processor, clients, db_exists, claude_code_logs, ncalls,
                   prompt_text, full_prompt, tmp_file, sent, response, exc,
                   returned>>

\* The document or the prompt file does not exist: the method raises
\* FileNotFoundError before its try block.
InvokeRaisesFileNotFound(m, c) ==
    /\ apc = "idle"
    /\ ncalls < MaxCalls
    /\ method' = m
    /\ call_corrections' = c
    /\ \E what \in {"Document not found", "prompt not found"} :
         returned' = [kind |-> "raised", exception |-> "FileNotFoundError",
                      value |-> <<what>>]
    /\ apc' = "done"
    /\ UNCHANGED <<config, processor, clients, db_exists, claude_code_logs, ncalls,
                   prompt_text, full_prompt, tmp_file, sent, response, exc>>

\* with open(prompt_path, 'r') as f: prompt_text = f.read()
ReadPrompt ==
    /\ apc = "read_prompt"
    /\ prompt_text' = PromptText(PromptFile(method))
    /\ apc' = "mkstemp"
    /\ UNCHANGED <<config, processor, clients, call_corrections,
                   db_exists, claude_code_logs, ncalls,
                   method, full_prompt, tmp_file, sent, response, exc, returned>>

\* The open or the read raises: the exception leaves _call_claude_code from
\* before its try block.
ReadPromptRaises ==
    /\ apc = "read_prompt"
    /\ exc' = PromptUnreadableMessage
    /\ apc' = "method_except"
    /\ UNCHANGED <<config, processor, clients, call_corrections,
                   db_exists, claude_code_logs, ncalls,
                   method, prompt_text, full_prompt, tmp_file, sent, response,
                   returned>>

\* tempfile.mkstemp
MakeTemp ==
    /\ apc = "mkstemp"
    /\ tmp_file' = [exists |-> TRUE, content |-> NoPrompt]
    /\ apc' = "write"
    /\ UNCHANGED <<config, processor, clients, call_corrections,
                   db_exists, claude_code_logs, ncalls,
                   method, prompt_text, full_prompt, sent, response, exc,
                   returned>>

\* full_prompt is built and written to the temporary file.
WritePrompt ==
    /\ apc = "write"
    /\ full_prompt' = FullPrompt(prompt_text, call_corrections)
    /\ tmp_file' = [exists |-> TRUE, content |-> full_prompt']
    /\ apc' = "run"
    /\ UNCHANGED <<config, processor, clients, call_corrections,
                   db_exists, claude_code_logs, ncalls,
                   method, prompt_text, sent, response, exc, returned>>

\* subprocess.run returns with exit code 0 and the agent's stdout.
RunAgent ==
    /\ apc = "run"
    /\ sent' = tmp_file.content
    /\ \E text \in Responses : response' = text
    /\ apc' = "parse"
    /\ UNCHANGED <<config, processor, clients, call_corrections,
                   db_exists, claude_code_logs, ncalls,
                   method, prompt_text, full_prompt, tmp_file, exc, returned>>

\* returncode != 0: RuntimeError carrying stderr.
RunAgentExitsNonZero ==
    /\ apc = "run"
    /\ sent' = tmp_file.content
    /\ exc' = ExitCodeMessage
    /\ apc' = "except"
    /\ UNCHANGED <<config, processor, clients, call_corrections,
                   db_exists, claude_code_logs, ncalls,
                   method, prompt_text, full_prompt, tmp_file, response,
                   returned>>

\* subprocess.run raises subprocess.TimeoutExpired.
RunAgentTimesOut ==
    /\ apc = "run"
    /\ sent' = tmp_file.content
    /\ exc' = "TimeoutExpired"
    /\ apc' = "except_timeout"
    /\ UNCHANGED <<config, processor, clients, call_corrections,
                   db_exists, claude_code_logs, ncalls,
                   method, prompt_text, full_prompt, tmp_file, response,
                   returned>>

\* A span that json.loads rejects reported as if no span had been found.
ParseAndLogOneError ==
    /\ apc = "parse"
    /\ IF ExtractJson(response) # "valid"
       THEN /\ exc' = NoJsonMessage
            /\ apc' = "except"
            /\ UNCHANGED claude_code_logs
       ELSE /\ LogClaudeInteraction(
                   InteractionRow(prompt_text, response, TRUE, None))
            /\ apc' = "finally"
            /\ UNCHANGED exc
    /\ UNCHANGED <<config, processor, clients, call_corrections,
                   db_exists, ncalls, method, prompt_text,
                   full_prompt, tmp_file, sent, response, returned>>

\* _extract_json and json.loads on the response; on success the interaction
\* is logged with success=True and the prompt text read from the file.
ParseAndLog ==
    /\ apc = "parse"
    /\ IF ExtractJson(response) = None
       THEN /\ exc' = NoJsonMessage
            /\ apc' = "except"
            /\ UNCHANGED claude_code_logs
       ELSE IF ExtractJson(response) = "malformed"
       THEN /\ exc' = JsonDecodeMessage
            /\ apc' = "except"
            /\ UNCHANGED claude_code_logs
       ELSE /\ LogClaudeInteraction(
                   InteractionRow(prompt_text, response, TRUE, None))
            /\ apc' = "finally"
            /\ UNCHANGED exc
    /\ UNCHANGED <<config, processor, clients, call_corrections,
                   db_exists, ncalls, method, prompt_text,
                   full_prompt, tmp_file, sent, response, returned>>

\* The timeout logged with the message of any other exception.
HandleTimeoutAsException ==
    /\ apc = "except_timeout"
    /\ LogClaudeInteraction(InteractionRow(full_prompt, NoResponse, FALSE, exc))
    /\ apc' = "finally"
    /\ UNCHANGED <<config, processor, clients, call_corrections,
                   db_exists, ncalls, method, prompt_text,
                   full_prompt, tmp_file, sent, response, exc, returned>>

\* except subprocess.TimeoutExpired: log success=False, re-raise.
HandleTimeout ==
    /\ apc = "except_timeout"
    /\ LogClaudeInteraction(
           InteractionRow(full_prompt, NoResponse, FALSE, TimeoutMessage))
    /\ apc' = "finally"
    /\ UNCHANGED <<config, processor, clients, call_corrections,
                   db_exists, ncalls, method, prompt_text,
                   full_prompt, tmp_file, sent, response, exc, returned>>

\* except Exception as e: log success=False with str(e), re-raise.
HandleException ==
    /\ apc = "except"
    /\ LogClaudeInteraction(InteractionRow(full_prompt, response, FALSE, exc))
    /\ apc' = "finally"
    /\ UNCHANGED <<config, processor, clients, call_corrections,
                   db_exists, ncalls, method, prompt_text,
                   full_prompt, tmp_file, sent, response, exc, returned>>

\* The temporary file removed only when no exception is propagating.
CleanupOnSuccessOnly ==
    /\ apc = "finally"
    /\ tmp_file' = IF exc = None THEN [exists |-> FALSE, content |-> NoPrompt]
                   ELSE tmp_file
    /\ apc' = IF exc = None THEN "method_return" ELSE "method_except"
    /\ UNCHANGED <<config, processor, clients, call_corrections,
                   db_exists, claude_code_logs, ncalls,
                   method, prompt_text, full_prompt, sent, response, exc,
                   returned>>

\* finally: os.unlink(tmp_path) when the file exists; then the return or
\* the re-raise takes place.
Cleanup ==
    /\ apc = "finally"
    /\ tmp_file' = [exists |-> FALSE, content |-> NoPrompt]
    /\ apc' = IF exc = None THEN "method_return" ELSE "method_except"
    /\ UNCHANGED <<config, processor, clients, call_corrections,
                   db_exists, claude_code_logs, ncalls,
                   method, prompt_text, full_prompt, sent, response, exc,
                   returned>>

\* The method returns the dict _call_claude_code returned.
MethodReturns ==
    /\ apc = "method_return"
    /\ returned' = [kind |-> "returned", exception |-> None,
                    value |-> AgentData(full_prompt, response)]
    /\ apc' = "done"
    /\ UNCHANGED <<config, processor, clients, call_corrections,
                   db_exists, claude_code_logs, ncalls,
                   method, prompt_text, full_prompt, tmp_file, sent, response,
                   exc>>

\* The exception leaves the method instead of being turned into a result.
MethodReraises ==
    /\ apc = "method_except"
    /\ returned' = [kind |-> "raised", exception |-> exc, value |-> <<exc>>]
    /\ apc' = "done"
    /\ UNCHANGED <<config, processor, clients, call_corrections,
                   db_exists, claude_code_logs, ncalls,
                   method, prompt_text, full_prompt, tmp_file, sent, response,
                   exc>>

\* except Exception as e of the method: its fallback dict is returned.
MethodExcept ==
    /\ apc = "method_except"
    /\ returned' = [kind |-> "returned", exception |-> None,
                    value |-> Fallback(method, exc)]
    /\ apc' = "done"
    /\ UNCHANGED <<config, processor, clients, call_corrections,
                   db_exists, claude_code_logs, ncalls,
                   method, prompt_text, full_prompt, tmp_file, sent, response,
                   exc>>

\* The invocation is over; its locals are gone.
Complete ==
    /\ apc = "done"
    /\ ncalls' = ncalls + 1
    /\ apc' = "idle"
    /\ method' = None
    /\ call_corrections' = NoCorrections
    /\ prompt_text' = NoPrompt
    /\ full_prompt' = NoPrompt
    /\ sent' = NoPrompt
    /\ response' = NoResponse
    /\ exc' = None
    /\ returned' = NoReturn
    /\ UNCHANGED <<config, processor, clients, db_exists, claude_code_logs, tmp_file>>

\* A DocumentClassifier constructed for a processor with the given
\* corrections, its database present or not; no document is in the pipeline.
ClassifierInit ==
    /\ db_exists \in BOOLEAN
    /\ NoInvocation
    /\ dev_mode = FALSE
    /\ self_paperless_id = None
    /\ corrections \in CorrectionsDomain
    /\ NoRun
    /\ NoClients

\* Every call process_document and _extract_metadata make on the
\* classifier passes corrections=self.corrections.
ClassifierNext ==
    \/ \E m \in Methods : Invoke(m, corrections)
    \/ \E m \in Methods : InvokeRaisesFileNotFound(m, corrections)
    \/ ReadPrompt
    \/ ReadPromptRaises
    \/ MakeTemp
    \/ WritePrompt
    \/ RunAgent
    \/ RunAgentExitsNonZero
    \/ RunAgentTimesOut
    \/ ParseAndLog
    \/ HandleTimeout
    \/ HandleException
    \/ Cleanup
    \/ MethodReturns
    \/ MethodExcept
    \/ Complete

ClassifierSpec == ClassifierInit /\ [][ClassifierNext]_vars

\* ------------------------------------------------- vocabulary of the claims
\* Position of the first occurrence of e in s; 0 when absent.
Pos(s, e) ==
    IF \E i \in 1..Len(s) : s[i] = e
    THEN CHOOSE i \in 1..Len(s) : s[i] = e /\ \A j \in 1..(i - 1) : s[j] # e
    ELSE 0

Count(s, S) == Cardinality({i \in 1..Len(s) : s[i] \in S})

Has(s, S) == \E i \in 1..Len(s) : s[i] \in S

HistoryRowsOf(r) ==
    {i \in 1..Len(processing_history) : processing_history[i].run = r}

PendingRowsOf(r) ==
    {i \in 1..Len(pending_documents) : pending_documents[i].run = r}

Returned(r) == pc[r] = "returned"
Finished(r) == pc[r] \in {"returned", "raised"}
Classified(r) == Has(calls[r], {"agent_classify"})

AgentCalls == {"agent_classify", "agent_extract"}
UploadCalls == {"paperless_upload_ok", "paperless_upload_failed", "paperless_upload_raised"}
UpdateCalls == {"paperless_update_ok", "paperless_update_failed"}
SyncCalls == UploadCalls \cup UpdateCalls
SyncFailures == {"paperless_upload_failed", "paperless_upload_raised",
                 "paperless_update_failed"}
NotificationCalls == {"notify_started", "notify_clarification", "notify_completed",
                      "notify_failed"}
LedgerCalls == {"insert_pending", "log_success", "log_failed"}
ExternalCalls == AgentCalls \cup SyncCalls \cup NotificationCalls \cup LedgerCalls
                 \cup {"vault_render"}
FailurePathCalls == {"notify_failed", "log_failed"}

\* C1: at every point of every run, and after any sequence of runs, a
\* document is stored in at most one of incoming/, processing/, completed/,
\* failed/ (files are moved, never copied).
C1_AtMostOneLocation ==
    \A d \in Docs : Cardinality({dir \in Dirs : fs[dir] = d}) <= 1

\* Two documents of two successive runs, each in its own single location.
C1_Witness ==
    /\ fs["completed"] = 1
    /\ fs["processing"] = 2

\* C2: when process_document returns, status and terminal location agree:
\* success - completed/, failed - failed/, pending_clarification - processing/.
C2_StatusAgreesWithLocation ==
    \A r \in Runs : Returned(r) =>
        /\ result[r].status = "success" => fs["completed"] = doc[r]
        /\ result[r].status = "failed" => fs["failed"] = doc[r]
        /\ result[r].status = "pending_clarification" => fs["processing"] = doc[r]

C5_AnyRaiseEndsFailed ==
    \A r \in Runs :
        /\ pc[r] # "raised"
        /\ (Returned(r) /\ error[r] # None) =>
              /\ result[r].status = "failed"
              /\ fs["failed"] = doc[r]
              /\ Cardinality(HistoryRowsOf(r)) = 1
              /\ \A i \in HistoryRowsOf(r) :
                   /\ processing_history[i].status = "failed"
                   /\ processing_history[i].error_message = error[r]

\* C6: on a failed run the failure notification is dispatched exactly once
\* when dev_mode is false and never when it is true; the returned result
\* carries a traceback only when dev_mode is true.
C6_FailureNotificationAndTraceback ==
    \A r \in Runs :
        /\ (pc[r] \in {"h_log", "returned", "raised"} /\ error[r] # None) =>
              Count(calls[r], {"notify_failed"}) = (IF dev_mode THEN 0 ELSE 1)
        /\ error[r] = None => ~Has(calls[r], {"notify_failed"})
        /\ Returned(r) =>
              (result[r].traceback # None <=> (dev_mode /\ result[r].status = "failed"))

\* A failed run outside dev mode that returned after its one notification.
C6_Witness ==
    \E r \in Runs :
        /\ Returned(r)
        /\ result[r].status = "failed"
        /\ ~dev_mode
        /\ Count(calls[r], {"notify_failed"}) = 1
        /\ result[r].traceback = None

C8_MoveBeforeAnyExternalCall ==
    \A r \in Runs : \A i \in 1..Len(calls[r]) :
        calls[r][i] \in ExternalCalls =>
            \E j \in 1..(i - 1) : calls[r][j] = "move_processing"

\* C8 as amended: in every run whose move into processing/ succeeds, that
\* move comes before the first external call; when the move raises, the only
\* external calls of the run are the failure notification and the failed
\* ledger row of the exception handler.
C8_MoveBeforeExternalCallUnlessMoveRaises ==
    \A r \in Runs : \A i \in 1..Len(calls[r]) :
        calls[r][i] \in ExternalCalls =>
            \/ \E j \in 1..(i - 1) : calls[r][j] = "move_processing"
            \/ /\ ~Has(calls[r], {"move_processing"})
               /\ calls[r][i] \in FailurePathCalls

\* A run that moved its file into processing/ and then called the agent.
C8_Witness ==
    \E r \in Runs :
        /\ Len(calls[r]) >= 2
        /\ calls[r][1] = "move_processing"
        /\ calls[r][2] = "agent_classify"

\* C9: a run that reaches routing performs exactly one document-store
\* operation: an update (never an upload) when an external paperless_id was
\* supplied, an upload (never an update) when none was.
C9_OneSyncOperation ==
    \A r \in Runs :
        /\ Count(calls[r], SyncCalls) <= 1
        /\ (metadata[r].kind # None /\ pc[r] # "sync") => Count(calls[r], SyncCalls) = 1
        /\ IF Truthy(self_paperless_id)
           THEN ~Has(calls[r], UploadCalls)
           ELSE ~Has(calls[r], UpdateCalls)

\* An update-mode run that went through routing and returned.
C9_Witness ==
    \E r \in Runs :
        /\ Returned(r)
        /\ Truthy(self_paperless_id)
        /\ Count(calls[r], UpdateCalls) = 1

\* C10: the two routing side effects fail independently: a failed
\* document-store sync (success=false or an exception) does not make the run
\* Failed and vault note rendering is still attempted for a category with a
\* vault mapping.
C10_RoutingFailuresIndependent ==
    \A r \in Runs : Has(calls[r], SyncFailures) =>
        /\ error[r] # "upload_document raised"
        /\ (category[r] \in NoteCategories
            /\ pc[r] \in {"notify", "move_done", "log", "returned"}) =>
               Has(calls[r], {"vault_render"})

\* C11: a run that reaches routing with a category that has a vault mapping
\* (UTILITY here) attempts vault note rendering for it.
C11_VaultMappedCategoryRendered ==
    \A r \in Runs :
        (category[r] \in NoteCategories /\ Has(calls[r], {"notify_completed"})) =>
            Has(calls[r], {"vault_render"})

Overridden == CorrectionsTruthy(corrections) /\ Truthy(corrections.override_category)

\* C12 as claimed: a run with corrections.override_category makes no
\* classification agent call, only the extraction call.
C12_OverrideSkipsClassification ==
    \A r \in Runs : Overridden => ~Has(calls[r], {"agent_classify"})

\* C12 as amended: a run with corrections.override_category still makes its
\* one classification agent call, and the override category replaces the
\* category of that call's result; the extraction call, if made, follows it.
C12_OverrideReplacesCategoryAfterClassification ==
    \A r \in Runs : (Overridden /\ category[r] # None) =>
        /\ Count(calls[r], {"agent_classify"}) = 1
        /\ category[r] = corrections.override_category
        /\ classification[r].category = corrections.override_category
        /\ Has(calls[r], {"agent_extract"}) =>
              Pos(calls[r], "agent_classify") < Pos(calls[r], "agent_extract")

\* An overridden run that made both agent calls.
C12_Witness ==
    \E r \in Runs :
        /\ Overridden
        /\ Has(calls[r], {"agent_classify"})
        /\ Has(calls[r], {"agent_extract"})
        /\ category[r] = "UTILITY"

\* C13: whatever the classification result (degraded and needs_clarification
\* ones included), a run with corrections.override_category = C that raises
\* nothing proceeds to extraction with category C, and its result and its
\* processing_history row carry C.
C13_OverrideProceedsToExtraction ==
    \A r \in Runs : (Overridden /\ Returned(r) /\ error[r] = None) =>
        /\ Has(calls[r], {"agent_extract"})
        /\ result[r].category = corrections.override_category
        /\ \E i \in HistoryRowsOf(r) :
              processing_history[i].category = corrections.override_category

\* C14 as claimed: the corrections column of every processing_history row
\* decodes to the corrections object the run was started with, on the
\* success and on the failed path; it is NULL when no object was supplied.
C14_CorrectionsRoundTrip ==
    \A i \in 1..Len(processing_history) :
        IF corrections.isNone
        THEN processing_history[i].corrections = SqlNull
        ELSE /\ ~processing_history[i].corrections.null
             /\ JsonLoads(processing_history[i].corrections.text) = corrections

\* C14 as amended: the corrections column of every processing_history row
\* decodes to the corrections object the run was started with when that
\* object is a non-empty dict, on the success and on the failed path; it is
\* NULL when no object or an empty one was supplied.
C14_NonEmptyCorrectionsRoundTrip ==
    \A i \in 1..Len(processing_history) :
        IF corrections.isNone \/ corrections = JsonLoads(<< >>)
        THEN processing_history[i].corrections = SqlNull
        ELSE /\ ~processing_history[i].corrections.null
             /\ JsonLoads(processing_history[i].corrections.text) = corrections

\* A success row and a failed row written under a two-member corrections
\* object.
C14_Witness ==
    /\ Truthy(corrections.override_category) /\ Truthy(corrections.notes)
    /\ \E i, j \in 1..Len(processing_history) :
          /\ processing_history[i].status = "success"
          /\ processing_history[j].status = "failed"
          /\ JsonLoads(processing_history[i].corrections.text) = corrections
          /\ JsonLoads(processing_history[j].corrections.text) = corrections

\* ------------------------------------- vocabulary of the classifier claims
HasNotesSection(p) == \E i \in 1..Len(p) : p[i].section = NotesSection

NotesIn(p, notes) ==
    \E i \in 1..Len(p) : p[i].section = NotesSection /\ p[i].text = notes

NotesPresent == CorrectionsTruthy(corrections) /\ Truthy(corrections.notes)

ExtractMethods == Methods \ {"classify_document"}

MethodDone(M) == method \in M /\ apc = "done"

\* _call_claude_code was entered and has returned or raised to the method.
AdapterEnded ==
    \/ apc \in {"method_return", "method_except"}
    \/ apc = "done" /\ returned.kind = "returned"

RowsOfCall(n) ==
    {i \in 1..Len(claude_code_logs) : claude_code_logs[i].call = n}

\* C15: with corrections.notes present every prompt the agent is run on, by
\* the classification method and by each extraction method, holds the notes
\* text in the delimited user-corrections section; without notes no prompt
\* holds such a section.
C15_NotesInEveryPrompt ==
    sent # NoPrompt =>
        IF NotesPresent THEN NotesIn(sent, corrections.notes)
        ELSE ~HasNotesSection(sent)

\* The classification prompt was sent in the first invocation and an
\* extraction prompt with the notes section is sent in the second.
C15_Witness ==
    /\ NotesPresent
    /\ method \in ExtractMethods
    /\ NotesIn(sent, corrections.notes)
    /\ \E i \in RowsOfCall(1) : claude_code_logs[i].prompt_type = "classifier"

\* C16 as claimed: classify_document never raises, and whenever something
\* failed inside it the result it returns is the degraded one.
C16_ClassifyNeverRaises ==
    MethodDone({"classify_document"}) =>
        /\ returned.kind = "returned"
        /\ exc # None => returned.value = DegradedResult(exc)

\* C16 as amended: classify_document raises only FileNotFoundError, and only
\* before the agent is involved (document or classifier prompt missing);
\* every failure of the agent call (prompt unreadable, non-zero exit,
\* timeout, absent or malformed JSON) yields the degraded result
\* {category GENERAL, confidence 0.0, needs_clarification true, error}.
C16_ClassifyRaisesOnlyFileNotFound ==
    MethodDone({"classify_document"}) =>
        IF returned.kind = "raised"
        THEN /\ returned.exception = "FileNotFoundError"
             /\ prompt_text = NoPrompt
             /\ sent = NoPrompt
        ELSE exc # None =>
                /\ returned.value = DegradedResult(exc)
                /\ returned.value.category = "GENERAL"
                /\ returned.value.confidence = "0.0"
                /\ returned.value.needs_clarification

\* classify_document returned the degraded result after malformed JSON.
C16_Witness ==
    /\ MethodDone({"classify_document"})
    /\ exc = JsonDecodeMessage
    /\ returned.kind = "returned"
    /\ returned.value.category = "GENERAL"

\* The keys the claim lists per category family.
ClaimedRequiredKeys(m) ==
    CASE m = "extract_medical_metadata" -> {"provider", "date", "diagnosis", "cost"}
      [] m = "extract_utility_metadata" ->
            {"provider", "billing_date", "due_date", "amount", "account_number"}
      [] OTHER -> {}

\* The same lists with the utility bill's date under the key the fallback
\* uses.
FallbackRequiredKeys(m) ==
    CASE m = "extract_medical_metadata" -> {"provider", "date", "diagnosis", "cost"}
      [] m = "extract_utility_metadata" ->
            {"provider", "date", "due_date", "amount", "account_number"}
      [] OTHER -> {}

C18_OneLogRowPerInvocation ==
    AdapterEnded =>
        /\ Cardinality(RowsOfCall(ncalls + 1)) = 1
        /\ \A i \in RowsOfCall(ncalls + 1) :
             claude_code_logs[i].success = (exc = None)

TimedOutClassification ==
    /\ method = "classify_document"
    /\ exc = "TimeoutExpired"
    /\ apc \in {"finally", "method_except", "done"}

TimeoutRow(i) ==
    /\ ~claude_code_logs[i].success
    /\ claude_code_logs[i].error_message = TimeoutMessage
    /\ claude_code_logs[i].error_message # ExitCodeMessage

PastExtraction(r) ==
    pc[r] \in {"sync", "note", "notify", "move_done", "log"}
    \/ (Returned(r) /\ result[r].status = "success")

PastSync(r) ==
    pc[r] \in {"note", "notify", "move_done", "log"}
    \/ (Returned(r) /\ result[r].status = "success")

\* C29: a run whose category is in neither the extractor's nor the vault
\* router's list makes no extraction agent call and has the empty mapping as
\* its metadata, renders no vault note (its note path is None), and still
\* makes its one document-store sync call.
C29_UnlistedCategoryOnlySyncs ==
    \A r \in Runs :
        (PastExtraction(r) /\ category[r] \notin ExtractorCategories \cup NoteCategories)
        => /\ ~Has(calls[r], {"agent_extract", "vault_render"})
           /\ metadata[r] = EmptyMetadata
           /\ basicmemory_path[r] = None
           /\ PastSync(r) => Count(calls[r], SyncCalls) = 1
           /\ Returned(r) => /\ result[r].basicmemory_path = None
                              /\ \A i \in HistoryRowsOf(r) :
                                    processing_history[i].basicmemory_path = None

\* A GENERAL document was processed to success with a sync call made.
C29_Witness ==
    \E r \in Runs :
        /\ Returned(r)
        /\ result[r].status = "success"
        /\ category[r] = "GENERAL"
        /\ Has(calls[r], SyncCalls)
        /\ metadata[r] = EmptyMetadata

\* ------------------------------------------------------------------- C30
\* C30: in create mode outside dry-run, a run whose upload succeeded records
\* the external id of the created document in its result and in its ledger
\* row (paperless_id and a paperless entry of files_created).
C30_UploadIdRecorded ==
    \A r \in Runs :
        (/\ ~dev_mode
         /\ ~Truthy(self_paperless_id)
         /\ Returned(r)
         /\ result[r].status = "success"
         /\ Has(calls[r], {"paperless_upload_ok"}))
        => /\ Truthy(result[r].paperless_id)
           /\ \A i \in HistoryRowsOf(r) :
                 /\ Truthy(processing_history[i].paperless_id)
                 /\ ~processing_history[i].files_created.null


\* ------------------------------------------- DocumentClassifier._extract_json
\* A response text as the two patterns of _extract_json see it: a sequence of
\* fences, the word json, whitespace (newlines included), braces.  The word
\* stands for every run of characters that is neither brace, whitespace nor
\* fence.
\* Fence stands for the three backquotes that open or close a code block.
Fence == "fence"
Word == "json"
Space == " "
Open == "{"
Close == "}"
Tokens == {Fence, Word, Space, Open, Close}
Texts == UNION {[1..n -> Tokens] : n \in 0..MaxLen}

At(t, j, tok) == j >= 1 /\ j <= Len(t) /\ t[j] = tok

\* \s* and \s*\n? consume the whitespace that follows.
RECURSIVE SkipSpaces(_, _)
SkipSpaces(t, j) == IF At(t, j, Space) THEN SkipSpaces(t, j + 1) ELSE j

\* fence(?:json)?\s*\n?(\{ tried at position i: the position of the brace that
\* opens the group, 0 when the pattern does not match there.
FenceGroupStart(t, i) ==
    IF ~At(t, i, Fence) THEN 0
    ELSE LET s == SkipSpaces(t, IF At(t, i + 1, Word) THEN i + 2 ELSE i + 1)
         IN IF At(t, s, Open) THEN s ELSE 0

\* .*?\})\s*\n?fence from position e on: the first closing brace followed by
\* optional whitespace and a fence (the dot matches everything under DOTALL),
\* 0 when there is none.
RECURSIVE LazyEnd(_, _)
LazyEnd(t, e) ==
    IF e > Len(t) THEN 0
    ELSE IF At(t, e, Close) /\ At(t, SkipSpaces(t, e + 1), Fence) THEN e
    ELSE LazyEnd(t, e + 1)

\* re.search of the fenced pattern: the leftmost position where it matches,
\* and group(1) of that match.
RECURSIVE FencedSearch(_, _)
FencedSearch(t, i) ==
    IF i > Len(t) THEN [found |-> FALSE, text |-> << >>]
    ELSE LET s == FenceGroupStart(t, i)
             e == IF s = 0 THEN 0 ELSE LazyEnd(t, s + 1)
         IN IF e # 0 THEN [found |-> TRUE, text |-> SubSeq(t, s, e)]
            ELSE FencedSearch(t, i + 1)

\* [^{}]*
RECURSIVE SkipNonBraces(_, _)
SkipNonBraces(t, j) ==
    IF j <= Len(t) /\ t[j] \notin {Open, Close} THEN SkipNonBraces(t, j + 1)
    ELSE j

\* (?:\{[^{}]*\}[^{}]*)* from position j on: the position after the last
\* repetition that matches.
RECURSIVE InnerGroups(_, _)
InnerGroups(t, j) ==
    IF At(t, j, Open) /\ At(t, SkipNonBraces(t, j + 1), Close)
    THEN InnerGroups(t, SkipNonBraces(t, SkipNonBraces(t, j + 1) + 1))
    ELSE j

\* (\{[^{}]*(?:\{[^{}]*\}[^{}]*)*\}) tried at position a: the position of the
\* closing brace, 0 when the pattern does not match there.
BareEnd(t, a) ==
    IF ~At(t, a, Open) THEN 0
    ELSE LET p == InnerGroups(t, SkipNonBraces(t, a + 1))
         IN IF At(t, p, Close) THEN p ELSE 0

\* re.search of the bare pattern.
RECURSIVE BareSearch(_, _)
BareSearch(t, a) ==
    IF a > Len(t) THEN [found |-> FALSE, text |-> << >>]
    ELSE IF BareEnd(t, a) # 0
    THEN [found |-> TRUE, text |-> SubSeq(t, a, BareEnd(t, a))]
    ELSE BareSearch(t, a + 1)

\* _extract_json on the text itself: the fenced pattern, then the bare one,
\* then None (found = FALSE).  ExtractJson above is the same function seen
\* through what json.loads makes of the span.
ExtractJsonText(t) ==
    IF FencedSearch(t, 1).found THEN FencedSearch(t, 1) ELSE BareSearch(t, 1)

\* _extract_json(response_text) is called and returns.
ApplyExtractJson ==
    /\ ~extracted.applied
    /\ extracted' = [applied |-> TRUE,
                     found |-> ExtractJsonText(response_text).found,
                     text |-> ExtractJsonText(response_text).text]
    /\ UNCHANGED <<config, processor, adapter, routing, updaters, rendering, response_text, vault, store>>

\* Every response text of the bound, the function not applied yet.
ExtractorInit ==
    /\ db_exists = TRUE
    /\ NoInvocation
    /\ dev_mode = FALSE
    /\ self_paperless_id = None
    /\ corrections = NoCorrections
    /\ NoRun
    /\ response_text \in Texts
    /\ extracted = NoExtract
    /\ NoVault
    /\ NoStore
    /\ NoRouting
    /\ NoUpdaters
    /\ NoRendering

ExtractorNext == ApplyExtractJson

ExtractorSpec == ExtractorInit /\ [][ExtractorNext]_vars

\* ------------------------------------------------- BasicMemoryNoteCreator
NoteMethods ==
    {"create_medical_note", "create_expense_note", "create_personal_medical_note",
     "create_personal_expense_note", "create_utility_note", "create_auto_note"}

\* The metadata of a note as far as the note depends on it: slug is what the
\* file name is derived from (date and sanitized description), body is what
\* only the content depends on.
Slugs == {"2025-01-15-checkup", "2025-02-01-visit"}
Bodies == {"copay 20", "copay 35"}
NoteMetadata == [slug : Slugs, body : Bodies]

\* The folder each method puts its notes in.
Folder(m) ==
    CASE m = "create_medical_note" -> "CoparentingSystem/60-medical/child"
      [] m = "create_expense_note" -> "CoparentingSystem/Expenses"
      [] m = "create_personal_medical_note" -> "Personal/Medical"
      [] m = "create_personal_expense_note" -> "Personal/Expenses/category"
      [] m = "create_utility_note" -> "Personal/Utilities/type"
      [] m = "create_auto_note" -> "Personal/Auto/subdir"

\* The methods that read a template file and raise when it is missing.
TemplateRequired(m) == m \in {"create_medical_note", "create_expense_note"}

\* The methods with the "while note_path.exists()" loop.
ChecksCollisions(m) == m # "create_expense_note"

\* The template or f-string of the method filled in from the metadata.
NoteContent(m, md) == [method |-> m, slug |-> md.slug, body |-> md.body]

\* base_filename, then base-1, base-2, ...: the first that does not exist.
RECURSIVE FreePath(_, _, _, _)
FreePath(files, folder, slug, n) ==
    LET p == [folder |-> folder, slug |-> slug, counter |-> n]
    IN IF p \in DOMAIN files THEN FreePath(files, folder, slug, n + 1) ELSE p

\* open(note_path, 'w') and f.write(content)
WriteFile(files, p, c) ==
    [q \in DOMAIN files \cup {p} |-> IF q = p THEN c ELSE files[q]]

\* The dry-run returns the base path without looking for collisions.
CreateNoteResultDryUnchecked(files, dirs, tmpl, dry_run, m, md) ==
    IF TemplateRequired(m) /\ ~tmpl
    THEN [raised |-> TRUE, path |-> NoPath, content |-> NoContent,
          files |-> files, dirs |-> dirs]
    ELSE LET path == IF ChecksCollisions(m) /\ ~dry_run
                     THEN FreePath(files, Folder(m), md.slug, 0)
                     ELSE [folder |-> Folder(m), slug |-> md.slug, counter |-> 0]
             content == NoteContent(m, md)
         IN [raised |-> FALSE, path |-> path, content |-> content,
             files |-> IF dry_run THEN files ELSE WriteFile(files, path, content),
             dirs |-> IF dry_run THEN dirs ELSE dirs \cup {Folder(m)}]

\* A create_*_note call on the vault (files, dirs): what it raises or
\* returns, and the vault it leaves.
CreateNoteResult(files, dirs, tmpl, dry_run, m, md) ==
    IF TemplateRequired(m) /\ ~tmpl
    THEN [raised |-> TRUE, path |-> NoPath, content |-> NoContent,
          files |-> files, dirs |-> dirs]
    ELSE LET path == IF ChecksCollisions(m)
                     THEN FreePath(files, Folder(m), md.slug, 0)
                     ELSE [folder |-> Folder(m), slug |-> md.slug, counter |-> 0]
             content == NoteContent(m, md)
         IN [raised |-> FALSE, path |-> path, content |-> content,
             files |-> IF dry_run THEN files ELSE WriteFile(files, path, content),
             dirs |-> IF dry_run THEN dirs ELSE dirs \cup {Folder(m)}]

\* create_*_note(metadata) on a creator constructed with dry_run.
CreateNote(dry_run, m, md) ==
    /\ dry_run \/ Cardinality(DOMAIN vault_files) < MaxNotes
    /\ LET res == CreateNoteResult(vault_files, vault_dirs, templates, dry_run, m, md)
       IN /\ vault_files' = res.files
          /\ vault_dirs' = res.dirs
          /\ note' = [called |-> TRUE, method |-> m, dry_run |-> dry_run,
                      raised |-> res.raised, path |-> res.path,
                      content |-> res.content]
    /\ UNCHANGED <<config, processor, adapter, routing, updaters, rendering, extraction, templates, store>>

\* Creators in either mode work on vaults that start empty, with or without
\* the CPS templates.
VaultInit ==
    /\ db_exists = TRUE
    /\ NoInvocation
    /\ dev_mode = FALSE
    /\ self_paperless_id = None
    /\ corrections = NoCorrections
    /\ NoRun
    /\ NoExtraction
    /\ vault_files = NoFiles
    /\ vault_dirs = {}
    /\ templates \in BOOLEAN
    /\ note = NoNote
    /\ NoStore
    /\ NoRouting
    /\ NoUpdaters
    /\ NoRendering

VaultNext ==
    \E dry_run \in BOOLEAN, m \in NoteMethods, md \in NoteMetadata :
        CreateNote(dry_run, m, md)

VaultSpec == VaultInit /\ [][VaultNext]_vars

\* --------------------------------------------------------- PaperlessClient
\* The tag names process_document passes (category.lower(), child.lower()).
TagNames == {"medical", "jacob"}

\* The id the document store gives the tag of a name; InboxTag is the id of
\* a tag a document may carry that no call names.
InboxTag == 1
TagId(n) == IF n = "medical" THEN 2 ELSE 3
TagIds(names) == {TagId(n) : n \in names}

DryRunTask == "DRY_RUN_TASK"

\* The dry-run resolves the tags, creating the missing ones, before it
\* returns.
UploadDocumentDryRunResolvesTags(dry_run, tags) ==
    /\ IF dry_run
       THEN /\ paperless_result' =
                  [op |-> "upload_document", success |-> TRUE,
                   document_id |-> DryRunId, task_id |-> DryRunTask,
                   dry_run |-> TRUE, tags |-> {}]
            /\ \E resolved \in SUBSET tags :
                 tag_registry' = tag_registry \cup resolved
            /\ UNCHANGED uploads
       ELSE /\ uploads < MaxUploads
            /\ \E resolved \in SUBSET tags, posted \in BOOLEAN :
                 /\ tag_registry' = tag_registry \cup resolved
                 /\ uploads' = IF posted THEN uploads + 1 ELSE uploads
                 /\ paperless_result' =
                       [op |-> "upload_document", success |-> posted,
                        document_id |-> None,
                        task_id |-> IF posted THEN "task uuid" ELSE None,
                        dry_run |-> FALSE, tags |-> {}]
    /\ UNCHANGED <<config, processor, adapter, routing, updaters, rendering, extraction, vault, doc_tags,
                   required_tags>>

\* upload_document(file_path, tags=tags) on a client constructed with
\* dry_run.  Outside dry-run _resolve_tags looks every name up and creates
\* the tags that are missing (a name whose requests fail is skipped), then
\* the document is posted; the result of a successful post carries the task
\* id only.
UploadDocument(dry_run, tags) ==
    /\ IF dry_run
       THEN /\ paperless_result' =
                  [op |-> "upload_document", success |-> TRUE,
                   document_id |-> DryRunId, task_id |-> DryRunTask,
                   dry_run |-> TRUE, tags |-> {}]
            /\ UNCHANGED <<tag_registry, uploads>>
       ELSE /\ uploads < MaxUploads
            /\ \E resolved \in SUBSET tags, posted \in BOOLEAN :
                 /\ tag_registry' = tag_registry \cup resolved
                 /\ uploads' = IF posted THEN uploads + 1 ELSE uploads
                 /\ paperless_result' =
                       [op |-> "upload_document", success |-> posted,
                        document_id |-> None,
                        task_id |-> IF posted THEN "task uuid" ELSE None,
                        dry_run |-> FALSE, tags |-> {}]
    /\ UNCHANGED <<config, processor, adapter, routing, updaters, rendering, extraction, vault, doc_tags,
                   required_tags>>

\* The PATCH puts the resolved tags in the place of the document's tags.
UpdateDocumentReplacesTags(dry_run, document_id, tags) ==
    /\ IF dry_run
       THEN /\ paperless_result' =
                  [op |-> "update_document", success |-> TRUE,
                   document_id |-> document_id, task_id |-> None,
                   dry_run |-> TRUE, tags |-> {}]
            /\ UNCHANGED <<doc_tags, tag_registry, required_tags>>
       ELSE \E resolved \in SUBSET tags, patched \in BOOLEAN :
                 /\ tag_registry' = tag_registry \cup resolved
                 /\ doc_tags' = IF patched /\ tags # {}
                                THEN TagIds(resolved) ELSE doc_tags
                 /\ required_tags' = IF patched /\ tags # {}
                                     THEN required_tags \cup TagIds(resolved)
                                     ELSE required_tags
                 /\ paperless_result' =
                       [op |-> "update_document", success |-> patched,
                        document_id |-> IF patched THEN document_id ELSE None,
                        task_id |-> None, dry_run |-> FALSE, tags |-> {}]
    /\ UNCHANGED <<config, processor, adapter, routing, updaters, rendering, extraction, vault, uploads>>

\* update_document(document_id, tags=tags).  Outside dry-run: get_document,
\* whose failure ends the call; _resolve_tags; the PATCH of
\* set(existing_tags + tag_ids), which may fail.
UpdateDocument(dry_run, document_id, tags) ==
    /\ IF dry_run
       THEN /\ paperless_result' =
                  [op |-> "update_document", success |-> TRUE,
                   document_id |-> document_id, task_id |-> None,
                   dry_run |-> TRUE, tags |-> {}]
            /\ UNCHANGED <<doc_tags, tag_registry, required_tags>>
       ELSE \E fetched \in BOOLEAN :
              IF ~fetched
              THEN /\ paperless_result' =
                         [op |-> "update_document", success |-> FALSE,
                          document_id |-> None, task_id |-> None,
                          dry_run |-> FALSE, tags |-> {}]
                   /\ UNCHANGED <<doc_tags, tag_registry, required_tags>>
              ELSE \E resolved \in SUBSET tags, patched \in BOOLEAN :
                     /\ tag_registry' = tag_registry \cup resolved
                     /\ doc_tags' = IF patched /\ tags # {}
                                    THEN doc_tags \cup TagIds(resolved)
                                    ELSE doc_tags
                     /\ required_tags' = IF patched /\ tags # {}
                                         THEN required_tags \cup TagIds(resolved)
                                         ELSE required_tags
                     /\ paperless_result' =
                           [op |-> "update_document", success |-> patched,
                            document_id |-> IF patched THEN document_id ELSE None,
                            task_id |-> None, dry_run |-> FALSE, tags |-> {}]
    /\ UNCHANGED <<config, processor, adapter, routing, updaters, rendering, extraction, vault, uploads>>

\* get_document(document_id): the stored document, or None when the request
\* fails.
GetDocument(document_id) ==
    /\ \E fetched \in BOOLEAN :
         paperless_result' =
            [op |-> "get_document", success |-> fetched,
             document_id |-> IF fetched THEN document_id ELSE None,
             task_id |-> None, dry_run |-> FALSE,
             tags |-> IF fetched THEN doc_tags ELSE {}]
    /\ UNCHANGED <<config, processor, adapter, routing, updaters, rendering, extraction, vault, doc_tags,
                   tag_registry, uploads, required_tags>>

\* Clients in either mode work on a store that holds document ExternalId,
\* tagged or not, and no tag of TagNames.
PaperlessInit ==
    /\ db_exists = TRUE
    /\ NoInvocation
    /\ dev_mode = FALSE
    /\ self_paperless_id = None
    /\ corrections = NoCorrections
    /\ NoRun
    /\ NoExtraction
    /\ NoVault
    /\ doc_tags \in SUBSET {InboxTag}
    /\ tag_registry = {}
    /\ uploads = 0
    /\ paperless_result = NoPaperlessResult
    /\ required_tags = doc_tags
    /\ NoRouting
    /\ NoUpdaters
    /\ NoRendering

PaperlessNext ==
    \/ \E dry_run \in BOOLEAN, tags \in SUBSET TagNames :
          \/ UploadDocument(dry_run, tags)
          \/ UpdateDocument(dry_run, ExternalId, tags)
    \/ GetDocument(ExternalId)

PaperlessSpec == PaperlessInit /\ [][PaperlessNext]_vars

\* ------------------------------- update_document calls running side by side
\* update_document(ExternalId, tags=tags) is called on a client outside
\* dry-run.
BeginUpdate(u, tags) ==
    /\ updaters[u].pc = "idle"
    /\ updaters' = [updaters EXCEPT ![u] = [@ EXCEPT !.pc = "get", !.tags = tags]]
    /\ UNCHANGED <<config, processor, adapter, extraction, vault, store,
                   routing, rendering>>

\* current_doc = self.get_document(document_id): the GET; a failed request
\* ends the call with success False.
GetCurrent(u) ==
    /\ updaters[u].pc = "get"
    /\ \E fetched \in BOOLEAN :
         updaters' = [updaters EXCEPT ![u] =
                        IF fetched
                        THEN [@ EXCEPT !.pc = "resolve", !.existing = doc_tags]
                        ELSE [@ EXCEPT !.pc = "done", !.success = FALSE]]
    /\ UNCHANGED <<config, processor, adapter, extraction, vault, store,
                   routing, rendering>>

\* if tags: tag_ids = self._resolve_tags(tags), which creates the tags that
\* are missing and skips a name whose requests fail.
ResolveTags(u) ==
    /\ updaters[u].pc = "resolve"
    /\ \E resolved \in SUBSET updaters[u].tags :
         /\ tag_registry' = tag_registry \cup resolved
         /\ updaters' = [updaters EXCEPT ![u] =
                           [@ EXCEPT !.pc = "patch", !.tag_ids = TagIds(resolved)]]
    /\ UNCHANGED <<config, processor, adapter, extraction, vault, routing,
                   rendering, doc_tags, uploads, paperless_result,
                   required_tags>>

\* requests.patch of update_data, whose tags are
\* list(set(existing_tags + tag_ids)): the PATCH, which may fail.
Patch(u) ==
    /\ updaters[u].pc = "patch"
    /\ \E patched \in BOOLEAN :
         /\ doc_tags' = IF patched /\ updaters[u].tags # {}
                        THEN updaters[u].existing \cup updaters[u].tag_ids
                        ELSE doc_tags
         /\ required_tags' = IF patched /\ updaters[u].tags # {}
                             THEN required_tags \cup updaters[u].tag_ids
                             ELSE required_tags
         /\ updaters' = [updaters EXCEPT ![u] =
                           [@ EXCEPT !.pc = "done", !.success = patched]]
    /\ UNCHANGED <<config, processor, adapter, extraction, vault, routing,
                   rendering, tag_registry, uploads, paperless_result>>

\* Two clients outside dry-run, a store that holds document ExternalId,
\* tagged or not.
UpdateRaceInit ==
    /\ db_exists = TRUE
    /\ NoInvocation
    /\ dev_mode = FALSE
    /\ self_paperless_id = ExternalId
    /\ corrections = NoCorrections
    /\ NoRun
    /\ NoExtraction
    /\ NoVault
    /\ doc_tags \in SUBSET {InboxTag}
    /\ tag_registry = {}
    /\ uploads = 0
    /\ paperless_result = NoPaperlessResult
    /\ required_tags = doc_tags
    /\ NoRouting
    /\ NoUpdaters
    /\ NoRendering

UpdateRaceNext ==
    \E u \in Updaters :
        \/ \E tags \in SUBSET TagNames : BeginUpdate(u, tags)
        \/ GetCurrent(u)
        \/ ResolveTags(u)
        \/ Patch(u)

UpdateRaceSpec == UpdateRaceInit /\ [][UpdateRaceNext]_vars

\* ------------------------------------- the vault router on extracted metadata
\* _extract_metadata: the classifier method of each category with an
\* extractor and a vault mapping.
ExtractorOf(cat) ==
    CASE cat = "CPS-MEDICAL" -> "extract_medical_metadata"
      [] cat = "CPS-EXPENSE" -> "extract_expense_metadata"
      [] cat = "PERSONAL-MEDICAL" -> "extract_personal_medical_metadata"
      [] cat = "PERSONAL-EXPENSE" -> "extract_personal_expense_metadata"
      [] cat = "UTILITY" -> "extract_utility_metadata"
      [] OTHER -> "extract_auto_metadata"

\* _create_basicmemory_note: the router method of each category.
NoteMethodOf(cat) ==
    CASE cat = "CPS-MEDICAL" -> "create_medical_note"
      [] cat = "CPS-EXPENSE" -> "create_expense_note"
      [] cat = "PERSONAL-MEDICAL" -> "create_personal_medical_note"
      [] cat = "PERSONAL-EXPENSE" -> "create_personal_expense_note"
      [] cat = "UTILITY" -> "create_utility_note"
      [] OTHER -> "create_auto_note"

\* The metadata an extract_* method hands on: the agent's object with every
\* field filled, an object with the date only, or the method's fallback.
CompleteMetadata ==
    [child |-> "Morgan", date |-> "2025-01-15", provider |-> "Dr Smith",
     vendor |-> "Acme", type |-> "checkup", diagnosis |-> "flu",
     category |-> "groceries", cost |-> "20"]
DateOnlyMetadata == [date |-> "2025-02-01"]
MetadataOf(cat) ==
    {CompleteMetadata, DateOnlyMetadata,
     Fallback(ExtractorOf(cat), "Claude Code failed")}

\* metadata.get(k, default): the default stands in for an absent key only; a
\* key that is present with None yields None.
Get(md, k, default) == IF k \in DOMAIN md THEN md[k] ELSE default

\* The values each method calls a string method on, passes to re.sub or
\* joins to a path while it builds the file name and the folder.
StringOperands(m, md) ==
    CASE m = "create_medical_note" ->
            {Get(md, "diagnosis", ""), Get(md, "type", Get(md, "visit_type", "")),
             Get(md, "child", "Unknown")}
      [] m = "create_expense_note" -> {Get(md, "vendor", "Expense")}
      [] m = "create_personal_medical_note" ->
            {Get(md, "provider", "Unknown Provider"), Get(md, "type", "office-visit")}
      [] m = "create_personal_expense_note" ->
            {Get(md, "vendor", "Unknown Vendor"), Get(md, "category", "other")}
      [] m = "create_utility_note" ->
            {Get(md, "provider", "Unknown Provider"),
             Get(md, "utility_type", Get(md, "type", "utility"))}
      [] m = "create_auto_note" ->
            {Get(md, "provider",
                 Get(md, "insurance_company", Get(md, "shop", "Unknown Provider"))),
             Get(md, "type", "other-service")}

\* None.strip(), re.sub(pattern, '', None), None.lower(), path / None: an
\* AttributeError or a TypeError.
RaisesOnNone(m, md) == None \in StringOperands(m, md)

\* What the file name and the content of the note are derived from.
SlugOf(md) ==
    IF Get(md, "date", "today") = "2025-01-15" THEN "2025-01-15-checkup"
    ELSE "2025-02-01-visit"
BodyOf(md) == IF Get(md, "cost", "0.00") = "20" THEN "copay 20" ELSE "copay 35"

\* The create_*_note call of _create_basicmemory_note(category, metadata).
RenderNote(dry_run) ==
    LET mth == NoteMethodOf(note_category)
    IN IF (TemplateRequired(mth) => templates) /\ RaisesOnNone(mth, note_metadata)
       THEN /\ note' = [called |-> TRUE, method |-> mth, dry_run |-> dry_run,
                        raised |-> TRUE, path |-> NoPath, content |-> NoContent]
            /\ UNCHANGED <<config, processor, adapter, routing, updaters,
                           rendering, extraction, vault_files, vault_dirs,
                           templates, store>>
       ELSE CreateNote(dry_run, mth,
                       [slug |-> SlugOf(note_metadata), body |-> BodyOf(note_metadata)])

\* Every category with a vault mapping and every metadata object of the
\* model for it; the vaults start empty.
RenderInit ==
    /\ db_exists = TRUE
    /\ NoInvocation
    /\ dev_mode = FALSE
    /\ self_paperless_id = None
    /\ corrections = NoCorrections
    /\ NoRun
    /\ NoExtraction
    /\ vault_files = NoFiles
    /\ vault_dirs = {}
    /\ templates \in BOOLEAN
    /\ note = NoNote
    /\ NoStore
    /\ NoRouting
    /\ NoUpdaters
    /\ note_category \in NoteCategories
    /\ note_metadata \in MetadataOf(note_category)

RenderNext == \E dry_run \in BOOLEAN : RenderNote(dry_run)

RenderSpec == RenderInit /\ [][RenderNext]_vars

\* ------------------------------------------- the two clients in dev mode
\* Step 3 of process_document on the client it constructed with
\* dry_run=dev_mode: update when an id was supplied, upload otherwise.
SyncWithClient(tags) ==
    IF Truthy(self_paperless_id)
    THEN UpdateDocument(dev_mode, self_paperless_id, tags)
    ELSE UploadDocument(dev_mode, tags)

\* The paperless_id process_document takes from step 3: the supplied id in
\* update mode, paperless_result.get('document_id') in create mode.
PaperlessIdOf(supplied, res) ==
    IF Truthy(supplied) THEN supplied ELSE res.document_id

\* A vault that earlier runs outside dev mode have left notes in.
UsedVault ==
    WriteFile(
        WriteFile(NoFiles,
                  [folder |-> Folder("create_utility_note"),
                   slug |-> "2025-01-15-checkup", counter |-> 0],
                  NoteContent("create_utility_note",
                              [slug |-> "2025-01-15-checkup", body |-> "copay 20"])),
        [folder |-> Folder("create_expense_note"),
         slug |-> "2025-02-01-visit", counter |-> 0],
        NoteContent("create_expense_note",
                    [slug |-> "2025-02-01-visit", body |-> "copay 35"]))

\* A processor in dev mode: both clients are constructed with dry_run=True,
\* on a vault and a document store that earlier runs may have written to.
DryRunInit ==
    /\ db_exists = TRUE
    /\ NoInvocation
    /\ dev_mode = TRUE
    /\ self_paperless_id \in {None, ExternalId}
    /\ corrections = NoCorrections
    /\ NoRun
    /\ NoExtraction
    /\ vault_files \in {NoFiles, UsedVault}
    /\ vault_dirs = {p.folder : p \in DOMAIN vault_files}
    /\ templates \in BOOLEAN
    /\ note = NoNote
    /\ doc_tags \in SUBSET {InboxTag}
    /\ tag_registry \in {{}, {"medical"}}
    /\ uploads \in {0, 1}
    /\ paperless_result = NoPaperlessResult
    /\ required_tags = doc_tags
    /\ NoRouting
    /\ NoUpdaters
    /\ NoRendering

DryRunNext ==
    \/ \E tags \in SUBSET TagNames : SyncWithClient(tags)
    \/ \E m \in NoteMethods, md \in NoteMetadata : CreateNote(dev_mode, m, md)

DryRunSpec == DryRunInit /\ [][DryRunNext]_vars

\* ------------------------------------ process_document started concurrently
\* Independent orchestrator instances of one configuration, each started on
\* the one file that waits in incoming/: every invocation is at its
\* shutil.move into processing/.
ConcurrentInit ==
    /\ db_exists = TRUE
    /\ NoInvocation
    /\ dev_mode \in BOOLEAN
    /\ self_paperless_id \in {None, ExternalId}
    /\ corrections \in CorrectionsDomain
    /\ fs = [d \in Dirs |-> IF d = "incoming" THEN 1 ELSE NoDoc]
    /\ processing_history = << >>
    /\ pending_documents = << >>
    /\ pc = [r \in Runs |-> "move_in"]
    /\ doc = [r \in Runs |-> 1]
    /\ classification = [r \in Runs |-> NoClassification]
    /\ category = [r \in Runs |-> None]
    /\ metadata = [r \in Runs |-> NoMetadata]
    /\ paperless_id = [r \in Runs |-> None]
    /\ basicmemory_path = [r \in Runs |-> None]
    /\ error = [r \in Runs |-> None]
    /\ result = [r \in Runs |-> NoResult]
    /\ calls = [r \in Runs |-> << >>]
    /\ delivered = None
    /\ NoClients

\* The steps of the invocations interleave.
ConcurrentNext ==
    \E r \in Runs :
        \/ MoveToProcessing(r)
        \/ MoveToProcessingRaises(r)
        \/ Classify(r)
        \/ ClassifyRaises(r)
        \/ HandleClarification(r)
        \/ HandleClarificationRaises(r)
        \/ Extract(r)
        \/ ExtractRaises(r)
        \/ Sync(r)
        \/ SyncRaises(r)
        \/ Note(r)
        \/ Notify(r)
        \/ MoveToCompleted(r)
        \/ MoveToCompletedRaises(r)
        \/ LogSuccess(r)
        \/ LogSuccessRaises(r)
        \/ HandlerMove(r)
        \/ HandlerMoveRaises(r)
        \/ HandlerNotify(r)
        \/ HandlerLog(r)
        \/ HandlerLogRaises(r)
        \/ Exit(r)

ConcurrentSpec == ConcurrentInit /\ [][ConcurrentNext]_vars

\* ------------------------------- step 3: tags and document type of a sync
\* The categories the helpers are called with in this model: the four keys
\* of the document type table and two categories the classifier prompt names.
SyncCategories ==
    {"MEDICAL", "CPS_EXPENSE", "SCHOOLWORK", "GENERAL", "CPS-MEDICAL", "UTILITY"}

\* metadata.get('child'): None (key absent or null), the empty string, a name.
Children == {None, "", "Morgan", "jacob", "JACOB"}

\* str.lower() on the strings of the model.
Lower(s) ==
    CASE s = "MEDICAL" -> "medical"
      [] s = "CPS_EXPENSE" -> "cps_expense"
      [] s = "SCHOOLWORK" -> "schoolwork"
      [] s = "GENERAL" -> "general"
      [] s = "CPS-MEDICAL" -> "cps-medical"
      [] s = "UTILITY" -> "utility"
      [] s = "Morgan" -> "morgan"
      [] s = "JACOB" -> "jacob"
      [] OTHER -> s

\* Python truthiness of metadata.get('child').
ChildTruthy(md) == md.child \notin {None, ""}

\* The dict literal of lines 299-304 and 324-329.
DocTypeTable ==
    [c \in {"MEDICAL", "CPS_EXPENSE", "SCHOOLWORK", "GENERAL"} |->
        CASE c = "MEDICAL" -> "Medical"
          [] c = "CPS_EXPENSE" -> "Expense"
          [] c = "SCHOOLWORK" -> "Schoolwork"
          [] c = "GENERAL" -> "Document"]

\* {...}.get(category, 'Document')
DocType(c) == IF c \in DOMAIN DocTypeTable THEN DocTypeTable[c] ELSE "Document"

\* What _upload_to_paperless passes to upload_document.
UploadArgs(c, md) ==
    [called |-> TRUE,
     tags |-> <<Lower(c)>> \o (IF ChildTruthy(md) THEN <<Lower(md.child)>> ELSE << >>),
     document_type |-> DocType(c)]

\* The update helper leaves the dependent's tag out.
UpdateArgsCategoryTagOnly(c, md) ==
    [called |-> TRUE, tags |-> <<Lower(c)>>, document_type |-> DocType(c)]

\* What _update_paperless_metadata passes to update_document.
UpdateArgs(c, md) ==
    [called |-> TRUE,
     tags |-> <<Lower(c)>> \o (IF ChildTruthy(md) THEN <<Lower(md.child)>> ELSE << >>),
     document_type |-> DocType(c)]

\* _upload_to_paperless(file_path, category, metadata)
UploadToPaperless ==
    /\ ~upload_args.called
    /\ upload_args' = UploadArgs(sync_category, sync_metadata)
    /\ UNCHANGED <<config, processor, adapter, extraction, vault, store,
                   updaters, rendering, sync_category, sync_metadata, update_args>>

\* _update_paperless_metadata(document_id, category, metadata)
UpdatePaperlessMetadata ==
    /\ ~update_args.called
    /\ update_args' = UpdateArgs(sync_category, sync_metadata)
    /\ UNCHANGED <<config, processor, adapter, extraction, vault, store,
                   updaters, rendering, sync_category, sync_metadata, upload_args>>

\* Every (category, metadata) of the model, neither helper called yet.
RoutingInit ==
    /\ db_exists = TRUE
    /\ NoInvocation
    /\ dev_mode = FALSE
    /\ self_paperless_id = None
    /\ corrections = NoCorrections
    /\ NoRun
    /\ NoExtraction
    /\ NoVault
    /\ NoStore
    /\ sync_category \in SyncCategories
    /\ sync_metadata \in [child : Children]
    /\ upload_args = NoArgs
    /\ update_args = NoArgs
    /\ NoUpdaters
    /\ NoRendering

RoutingNext ==
    \/ UploadToPaperless
    \/ UpdatePaperlessMetadata

RoutingSpec == RoutingInit /\ [][RoutingNext]_vars

\* ------------------------------------------------------------------- C21
IsSpaces(t, a, b) == \A j \in a..b : t[j] = Space

\* A fence at i opens a block whose content starts with the brace at s.
Opens(t, i, s) ==
    /\ At(t, i, Fence)
    /\ At(t, s, Open)
    /\ s > i
    /\ IsSpaces(t, i + 1, s - 1) \/ (At(t, i + 1, Word) /\ IsSpaces(t, i + 2, s - 1))

\* The brace at e is the last thing before a fence.
Closes(t, e) ==
    /\ At(t, e, Close)
    /\ \E k \in (e + 1)..Len(t) : t[k] = Fence /\ IsSpaces(t, e + 1, k - 1)

\* <<s, e>> of the fenced blocks whose content is one {...} span: from the
\* brace after the opening fence to the brace before the next fence.
FencedObjects(t) ==
    {q \in (1..Len(t)) \X (1..Len(t)) :
        /\ \E i \in 1..Len(t) : Opens(t, i, q[1])
        /\ q[2] > q[1]
        /\ Closes(t, q[2])
        /\ \A j \in q[1]..q[2] : t[j] # Fence}

Depth(t, a, j) ==
    Cardinality({x \in a..j : t[x] = Open}) - Cardinality({x \in a..j : t[x] = Close})

\* <<a, b>> of the spans of the raw text that are balanced and nest braces
\* at most one level deep.
BalancedSpans(t) ==
    {q \in (1..Len(t)) \X (1..Len(t)) :
        /\ q[1] < q[2]
        /\ t[q[1]] = Open
        /\ t[q[2]] = Close
        /\ Depth(t, q[1], q[2]) = 0
        /\ \A j \in q[1]..(q[2] - 1) : Depth(t, q[1], j) \in {1, 2}}

FirstOf(S) == CHOOSE q \in S : \A p \in S : q[1] <= p[1]

Returns(t, q) == extracted.found /\ extracted.text = SubSeq(t, q[1], q[2])

\* The first balanced span of the raw text, otherwise None.
ReturnsFirstBalancedSpan(t) ==
    IF BalancedSpans(t) # {} THEN Returns(t, FirstOf(BalancedSpans(t)))
    ELSE ~extracted.found

\* C21: _extract_json returns the object inside a fenced code block when the
\* text contains one, preferring it over any bare object elsewhere in the
\* text; otherwise the first balanced {...} span of the raw text with at most
\* one level of nested braces; otherwise None.
C21_FencedObjectElseFirstBalancedSpan ==
    extracted.applied =>
        LET t == response_text
        IN IF FencedObjects(t) # {}
           THEN \E q \in FencedObjects(t) : Returns(t, q)
           ELSE ReturnsFirstBalancedSpan(t)

\* ------------------------------------------------------------------- C23
\* The step is a create_*_note call outside dry-run that returned a path.
CreatesNote == note'.called /\ ~note'.dry_run /\ ~note'.raised

\* C23: every note creation, whatever the method, returns a path that no
\* existing note has: the derived path, or the derived path with the first
\* free counter (-1, -2, ...) appended when notes with the same derived path
\* exist; and it leaves every existing note file and its content as it was.
C23_CollisionsGetCounterNothingOverwritten ==
    [][CreatesNote =>
         /\ note'.path \notin DOMAIN vault_files
         /\ note'.path.folder = Folder(note'.method)
         /\ \A n \in 0..(note'.path.counter - 1) :
               [note'.path EXCEPT !.counter = n] \in DOMAIN vault_files
         /\ \A p \in DOMAIN vault_files :
               p \in DOMAIN vault_files' /\ vault_files'[p] = vault_files[p]]_vars

NothingWritten ==
    /\ vault_files' = vault_files
    /\ vault_dirs' = vault_dirs
    /\ doc_tags' = doc_tags
    /\ tag_registry' = tag_registry
    /\ uploads' = uploads

\* The id the run of the last step-3 call records in its result and in its
\* ledger row.
RecordedId == PaperlessIdOf(self_paperless_id, paperless_result)

C26_UpdatesMergeTags ==
    /\ required_tags \subseteq doc_tags
    /\ (paperless_result.op = "get_document" /\ paperless_result.success) =>
          (paperless_result.tags = doc_tags
           /\ required_tags \subseteq paperless_result.tags)

\* The document had the inbox tag, updates resolved the two other tags, and
\* a get returned the three tags.
C26_Witness ==
    /\ paperless_result.op = "get_document"
    /\ paperless_result.success
    /\ paperless_result.tags = {InboxTag} \cup TagIds(TagNames)
    /\ required_tags = paperless_result.tags

\* ------------------------------------------------------------------- C22
AfterParse == apc \in {"except", "finally", "method_except", "done"}

\* C22: a response with no JSON object raises the "no JSON found" error and
\* a response whose extracted span is not valid JSON raises the JSON decode
\* error; the two errors differ, each is what the failure row of the log and
\* the error of classify_document's result carry, and neither leaves
\* classify_document or an extract_* method as an exception.
C22_NotFoundAndMalformedDistinct ==
    /\ NoJsonMessage # JsonDecodeMessage
    /\ AfterParse =>
          /\ response.object = "absent" => exc = NoJsonMessage
          /\ response.object = "malformed" => exc = JsonDecodeMessage
    /\ (apc = "done" /\ response.object \in {"absent", "malformed"}) =>
          /\ returned.kind = "returned"
          /\ method = "classify_document" => returned.value.error = exc
    /\ \A i \in 1..Len(claude_code_logs) :
          LET row == claude_code_logs[i] IN
          /\ row.response_content.object = "absent" =>
                (~row.success /\ row.error_message = NoJsonMessage)
          /\ row.response_content.object = "malformed" =>
                (~row.success /\ row.error_message = JsonDecodeMessage)

\* classify_document has returned its degraded result on a response whose
\* span was not valid JSON, after an invocation that ended on a response
\* without any JSON object.
C22_Witness ==
    /\ apc = "done"
    /\ method = "classify_document"
    /\ response.object = "malformed"
    /\ returned.kind = "returned"
    /\ returned.value.error = JsonDecodeMessage
    /\ \E i \in 1..Len(claude_code_logs) :
          claude_code_logs[i].error_message = NoJsonMessage


\* ------------------------------------------------------------------- C27
\* The step sends a notification of run r.
Notifies(r) ==
    /\ Len(calls'[r]) > Len(calls[r])
    /\ calls'[r][Len(calls'[r])] \in NotificationCalls

\* C27: a step whose notification (completion, failure or clarification
\* needed) is not delivered moves no file, writes no history row, leaves the
\* error being handled as it is, and goes on where a delivered notification
\* goes on: to the move to completed/, to the failure row, or to the return
\* of status pending_clarification with its pending row recorded.
C27_UndeliveredNotificationChangesNothing ==
    [][\A r \in Runs :
         (Notifies(r) /\ delivered' = "False") =>
            /\ fs' = fs
            /\ processing_history' = processing_history
            /\ error'[r] = error[r]
            /\ pc[r] = "notify" =>
                  (pc'[r] = "move_done" /\ result'[r] = result[r]
                   /\ pending_documents' = pending_documents)
            /\ pc[r] = "h_notify" =>
                  (pc'[r] = "h_log" /\ result'[r] = result[r]
                   /\ pending_documents' = pending_documents)
            /\ pc[r] = "clarify" =>
                  /\ pc'[r] = "returned"
                  /\ result'[r].status = "pending_clarification"
                  /\ pending_documents' =
                        Append(pending_documents, PendingRow(r, classification[r]))]_vars

\* The completion notification of a run was not delivered and the run
\* returned success, its file in completed/ and its success row written.
C27_Witness ==
    \E r \in Runs :
        /\ Returned(r)
        /\ delivered = "False"
        /\ Has(calls[r], {"notify_completed"})
        /\ result[r].status = "success"
        /\ fs["completed"] = doc[r]
        /\ \E i \in HistoryRowsOf(r) : processing_history[i].status = "success"


\* ------------------------------------------------------------------- C31
\* The tag list the claim describes for (category, metadata).
ClaimedTags ==
    IF sync_metadata.child # None /\ sync_metadata.child # ""
    THEN <<Lower(sync_category), Lower(sync_metadata.child)>>
    ELSE <<Lower(sync_category)>>

\* C31: for the same (category, metadata) the upload helper and the update
\* helper pass the same tag list and the same document type; the tag list is
\* the lowercased category, followed by the lowercased dependent name exactly
\* when the metadata has a non-empty child; the document type is the entry
\* of the category-to-type table for a category the table lists.
C31_UploadAndUpdateDeriveSameTagsAndType ==
    /\ \A a \in {upload_args, update_args} :
          a.called =>
            /\ a.tags = ClaimedTags
            /\ sync_category \in DOMAIN DocTypeTable
                 => a.document_type = DocTypeTable[sync_category]
    /\ upload_args.called /\ update_args.called
         => /\ upload_args.tags = update_args.tags
            /\ upload_args.document_type = update_args.document_type

\* Both helpers were called for a medical document of a dependent: each
\* passed the category tag and the dependent's tag, and the type Medical.
C31_Witness ==
    /\ sync_category = "MEDICAL"
    /\ sync_metadata.child = "Morgan"
    /\ upload_args.called
    /\ update_args.called
    /\ update_args.tags = <<"medical", "morgan">>
    /\ update_args.document_type = "Medical"


\* ------------------------------------------------------------------- C32
\* The run that moved the file into processing/.
MovedIn(r) == Has(calls[r], {"move_processing"})

\* C32: of the runs started concurrently on one incoming file, only the run
\* that moved the file into processing/ ever takes it out of processing/:
\* while a file is held there, a step of any other run leaves it there.
C32_OnlyOwnerTouchesProcessing ==
    [][\A r \in Runs :
          (pc'[r] # pc[r] /\ ~MovedIn(r) /\ Exists(fs, "processing"))
              => fs'["processing"] = fs["processing"]]_vars


\* ------------------------------------------------------------------- C33
\* C33: a move into processing/, completed/ or failed/ never replaces a
\* different document stored there under the filename: a directory that
\* holds a document keeps it or gives it up, it never gets another one in
\* its place.
C33_MoveNeverReplacesDocument ==
    [][\A d \in {"processing", "completed", "failed"} :
          Exists(fs, d) => fs'[d] \in {fs[d], NoDoc}]_vars


\* ------------------------------------------------------------------- C34
\* The classification of the run is the degraded result of a failed agent
\* invocation.
AgentFailed(r) == Truthy(classification[r].error)

ExtractionFailed(r) == metadata[r].kind = "fallback"

\* What str(e) is when a step after extraction raised.
LaterStepErrors ==
    {"upload_document raised", "move to completed failed",
     "sqlite3 error on processing_history"}

C36_InterleavedUpdatesKeepAllTags ==
    (\A u \in Updaters : updaters[u].pc = "done") =>
        /\ \A u \in Updaters :
              (updaters[u].success /\ updaters[u].tags # {})
                  => updaters[u].tag_ids \subseteq doc_tags
        /\ \A u \in Updaters :
              updaters[u].success => updaters[u].existing \subseteq doc_tags


\* ------------------------------------------------------------------- C37
\* The metadata is the fallback a failed extraction returned.
IsFallback(md) == "needs_clarification" \in DOMAIN md

\* C37: given the fallback metadata of a failed extraction for a category
\* (keys present with null values), the note-creation method of the
\* category returns a note path instead of raising, whenever the template
\* it needs is in place.
C37_FallbackMetadataStillRendered ==
    (/\ note.called
     /\ IsFallback(note_metadata)
     /\ TemplateRequired(note.method) => templates)
        => /\ ~note.raised
           /\ note.path # NoPath


\* ------------------------------------------------------------------- C38
\* The invocation has returned one of the three terminal outcomes.
ReturnedOutcome(r) ==
    /\ pc[r] = "returned"
    /\ result[r].status \in {"success", "failed", "pending_clarification"}

\* C38: every process_document invocation that has started eventually
\* reaches a terminal outcome (Completed, Failed or NeedsClarification) and
\* returns it, given that every external call returns or fails.
C38_EveryInvocationReturnsAnOutcome ==
    \A r \in Runs : (pc[r] = "move_in") ~> ReturnedOutcome(r)

====
